---- MODULE Spec2Model ----
(***************************************************************************)
(* A model of tab4moji/egemini: the mini-schema compiler                   *)
(* (extract_response_schema and the parsers under it, which exist in two   *)
(* copies, src/src/test_respsml.py and src/src/q_a_with_grounding.py) and  *)
(* the chat layer that uses it (get_model_response, main).                 *)
(*                                                                         *)
(* Python text is a sequence of one-character strings.  Python indices    *)
(* are kept 0-based as in the source; At(seq, i) reads seq[i].             *)
(* The interpreter's resource limits (recursion depth, the integer-string  *)
(* digit limit of json.loads) lie beyond the bounds of this model.         *)
(***************************************************************************)
EXTENDS Integers, Sequences, FiniteSets, TLC

VARIABLES
  text,                  \* the prompt text being entered (custom_input)
  typed,                 \* how many lines were added to it
  test_pc,               \* test_respsml.py main: "input", "printed", "exit1", "crashed"
  schema,                \* test_respsml.py main: schema
  chat_pc,               \* q_a_with_grounding.py main: "input", "requested", "crashed"
  conversation_history,  \* q_a_with_grounding.py main: conversation_history
  generation_config,     \* get_model_response: generation_config
  stack,                 \* the compiler's call stack, one frame per running parser
  ret                    \* the value a parser has just returned to its caller

walk_vars == <<stack, ret>>

vars == <<text, typed, test_pc, schema, chat_pc, conversation_history, generation_config,
          stack, ret>>

----------------------------------------------------------------------------
(* Python str primitives *)

\* str.strip() / lstrip() / rstrip() without argument strip these (the
\* whitespace characters of the model's alphabet).
WhitespaceChars == {" ", "\t", "\n", "\r"}

\* The argument of line.lstrip(" ").
SpaceChar == {" "}

At(seq, i) == seq[i + 1]

Range(s) == {s[i] : i \in 1..Len(s)}

LeadingCount(s, chars) ==
  IF \A i \in 1..Len(s) : s[i] \in chars
    THEN Len(s)
    ELSE (CHOOSE i \in 1..Len(s) :
            s[i] \notin chars /\ \A j \in 1..(i - 1) : s[j] \in chars) - 1

TrailingCount(s, chars) ==
  IF \A i \in 1..Len(s) : s[i] \in chars
    THEN Len(s)
    ELSE Len(s) - (CHOOSE i \in 1..Len(s) :
            s[i] \notin chars /\ \A j \in (i + 1)..Len(s) : s[j] \in chars)

lstrip(s, chars) == SubSeq(s, LeadingCount(s, chars) + 1, Len(s))

rstrip(s, chars) == SubSeq(s, 1, Len(s) - TrailingCount(s, chars))

strip(s) == rstrip(lstrip(s, WhitespaceChars), WhitespaceChars)

startswith(s, c) == Len(s) >= 1 /\ s[1] = c

endswith(s, c) == Len(s) >= 1 /\ s[Len(s)] = c

\* s.split(sep, 1): one part when sep does not occur, else two.
split_once(s, sep) ==
  IF sep \notin Range(s)
    THEN <<s>>
    ELSE LET k == LeadingCount(s, Range(s) \ {sep}) + 1
         IN <<SubSeq(s, 1, k - 1), SubSeq(s, k + 1, Len(s))>>

\* text.splitlines(): the only line boundary of the model's alphabet is "\n";
\* a final line break opens no further line.
RECURSIVE splitlines(_)
splitlines(t) ==
  IF t = <<>>
    THEN <<>>
    ELSE LET parts == split_once(t, "\n")
         IN IF Len(parts) = 1
              THEN <<t>>
              ELSE <<parts[1]>> \o splitlines(parts[2])

\* sep.join(parts)
RECURSIVE join(_, _)
join(sep, parts) ==
  IF parts = <<>> THEN <<>>
  ELSE IF Len(parts) = 1 THEN parts[1]
  ELSE parts[1] \o sep \o join(sep, Tail(parts))

\* len(line) - len(line.lstrip(" "))
indent_of(line) == Len(line) - Len(lstrip(line, SpaceChar))

----------------------------------------------------------------------------
(* Python values met in an enum list.  custom_parse_list yields str only;  *)
(* json.loads yields whatever the JSON text denotes.                       *)

PyStr(chars) == [py |-> "str", text |-> chars]
PyInt(digits) == [py |-> "int", digits |-> digits]
PyList(elems) == [py |-> "list", elems |-> elems]

PyDict(items) == [py |-> "dict", items |-> items]
PyBool(b) == [py |-> "bool", value |-> b]
PyNone == [py |-> "NoneType"]

----------------------------------------------------------------------------
(* json.loads, as far as the texts of the model go: objects, arrays,       *)
(* strings, integers and the literals true, false, null.  No text of the   *)
(* model holds a fraction, an exponent or a \u escape.                     *)

Digits == {"0", "1", "2", "3", "4", "5", "6", "7", "8", "9"}

\* json.decoder.WHITESPACE
JsonWs == {" ", "\t", "\n", "\r"}

\* json.decoder.BACKSLASH; "<BS>" and "<FF>" stand for U+0008 and U+000C.
JsonEscape ==
  "\"" :> "\"" @@ "\\" :> "\\" @@ "/" :> "/" @@ "b" :> "<BS>" @@
  "f" :> "<FF>" @@ "n" :> "\n" @@ "r" :> "\r" @@ "t" :> "\t"

\* The characters below U+0020 that the strict string scanner rejects.
JsonControlChars == {"\t", "\n", "\r", "<BS>", "<FF>"}

JsonLiterals ==
  << [word |-> <<"t", "r", "u", "e">>, value |-> PyBool(TRUE)],
     [word |-> <<"f", "a", "l", "s", "e">>, value |-> PyBool(FALSE)],
     [word |-> <<"n", "u", "l", "l">>, value |-> PyNone] >>

JsonFail == [ok |-> FALSE]

\* Positions are 1-based here; "end" is the position after the value.
skip_ws(s, i) == i + LeadingCount(SubSeq(s, i, Len(s)), JsonWs)

RECURSIVE json_scanstring(_, _, _)
json_scanstring(s, i, acc) ==
  IF i > Len(s) THEN JsonFail
  ELSE IF s[i] = "\"" THEN [ok |-> TRUE, value |-> PyStr(acc), end |-> i + 1]
  ELSE IF s[i] = "\\"
    THEN IF i + 1 <= Len(s) /\ s[i + 1] \in DOMAIN JsonEscape
           THEN json_scanstring(s, i + 2, Append(acc, JsonEscape[s[i + 1]]))
           ELSE JsonFail
  ELSE IF s[i] \in JsonControlChars THEN JsonFail
  ELSE json_scanstring(s, i + 1, Append(acc, s[i]))

\* NUMBER_RE = (-?(?:0|[1-9]\d*)), and int() of the match.
json_number(s, i) ==
  LET neg == s[i] = "-"
      j == IF neg THEN i + 1 ELSE i
  IN IF j > Len(s) \/ s[j] \notin Digits
       THEN JsonFail
       ELSE LET run == IF s[j] = "0"
                         THEN 1
                         ELSE LeadingCount(SubSeq(s, j, Len(s)), Digits)
                digits == SubSeq(s, j, j + run - 1)
            IN [ok |-> TRUE,
                value |-> PyInt(IF neg /\ digits # <<"0">>
                                  THEN <<"-">> \o digits
                                  ELSE digits),
                end |-> j + run]

json_literal(s, i) ==
  LET hits == {k \in 1..Len(JsonLiterals) :
                 /\ i + Len(JsonLiterals[k].word) - 1 <= Len(s)
                 /\ SubSeq(s, i, i + Len(JsonLiterals[k].word) - 1) = JsonLiterals[k].word}
  IN IF hits = {}
       THEN JsonFail
       ELSE LET k == CHOOSE k \in hits : TRUE
            IN [ok |-> TRUE, value |-> JsonLiterals[k].value,
                end |-> i + Len(JsonLiterals[k].word)]

RECURSIVE json_value(_, _), json_elements(_, _, _), json_after_element(_, _, _)
RECURSIVE json_members(_, _, _), json_after_key(_, _, _), json_after_member(_, _, _, _)
\* scanner.scan_once
json_value(s, i) ==
  IF i > Len(s) THEN JsonFail
  ELSE IF s[i] = "\"" THEN json_scanstring(s, i + 1, <<>>)
  ELSE IF s[i] = "["
    THEN LET j == skip_ws(s, i + 1)
         IN IF j > Len(s) THEN JsonFail
            ELSE IF s[j] = "]" THEN [ok |-> TRUE, value |-> PyList(<<>>), end |-> j + 1]
            ELSE json_elements(s, j, <<>>)
  ELSE IF s[i] = "{"
    THEN LET j == skip_ws(s, i + 1)
         IN IF j > Len(s) THEN JsonFail
            ELSE IF s[j] = "}" THEN [ok |-> TRUE, value |-> PyDict(<<>>), end |-> j + 1]
            ELSE json_members(s, j, <<>>)
  ELSE IF s[i] = "-" \/ s[i] \in Digits THEN json_number(s, i)
  ELSE json_literal(s, i)

\* decoder.JSONArray: the element at position i and what follows it
json_elements(s, i, acc) == json_after_element(s, acc, json_value(s, i))

\* decoder.JSONArray: after element v, "]" ends the array and "," goes on
json_after_element(s, acc, v) ==
  IF ~v.ok THEN JsonFail
  ELSE IF skip_ws(s, v.end) > Len(s) THEN JsonFail
  ELSE IF s[skip_ws(s, v.end)] = "]"
    THEN [ok |-> TRUE, value |-> PyList(Append(acc, v.value)),
          end |-> skip_ws(s, v.end) + 1]
  ELSE IF s[skip_ws(s, v.end)] # "," THEN JsonFail
  ELSE json_elements(s, skip_ws(s, skip_ws(s, v.end) + 1), Append(acc, v.value))

\* decoder.JSONObject: a member begins with the string of its key
json_members(s, i, acc) ==
  IF i > Len(s) THEN JsonFail
  ELSE IF s[i] # "\"" THEN JsonFail
  ELSE json_after_key(s, acc, json_scanstring(s, i + 1, <<>>))

\* decoder.JSONObject: after key k, ":" and the value
json_after_key(s, acc, k) ==
  IF ~k.ok THEN JsonFail
  ELSE IF skip_ws(s, k.end) > Len(s) THEN JsonFail
  ELSE IF s[skip_ws(s, k.end)] # ":" THEN JsonFail
  ELSE json_after_member(s, acc, k.value.text,
                         json_value(s, skip_ws(s, skip_ws(s, k.end) + 1)))

\* decoder.JSONObject: after value v, "}" ends the object and "," goes on;
\* a key written twice keeps its last value
json_after_member(s, acc, key, v) ==
  IF ~v.ok THEN JsonFail
  ELSE IF skip_ws(s, v.end) > Len(s) THEN JsonFail
  ELSE IF s[skip_ws(s, v.end)] = "}"
    THEN [ok |-> TRUE, value |-> PyDict((key :> v.value) @@ acc),
          end |-> skip_ws(s, v.end) + 1]
  ELSE IF s[skip_ws(s, v.end)] # "," THEN JsonFail
  ELSE json_members(s, skip_ws(s, skip_ws(s, v.end) + 1), (key :> v.value) @@ acc)

\* decoder.JSONDecoder.decode: nothing but whitespace may follow the value
json_whole(s, v) ==
  IF v.ok /\ skip_ws(s, v.end) = Len(s) + 1
    THEN [ok |-> TRUE, value |-> v.value]
    ELSE JsonFail

\* json.loads(s): ok is FALSE where Python raises json.JSONDecodeError.
json_loads(s) == json_whole(s, json_value(s, skip_ws(s, 1)))

----------------------------------------------------------------------------
(* The Enum List Tokenizer *)

QuoteChars == {"\"", "'"}

\* A token that begins with one quote character and ends with any.
is_quoted_any_pair(token) ==
  /\ token # <<>>
  /\ token[1] \in QuoteChars
  /\ token[Len(token)] \in QuoteChars

\* One layer of matching quotes around a token (or a key) is dropped.
is_quoted(token) ==
  \/ startswith(token, "\"") /\ endswith(token, "\"")
  \/ startswith(token, "'") /\ endswith(token, "'")

unquote(token) == IF is_quoted(token) THEN SubSeq(token, 2, Len(token) - 1) ELSE token

\* The character loop of custom_parse_list; st holds its local variables.
RECURSIVE scan_list(_, _, _)
scan_list(inner, i, st) ==
  IF i > Len(inner) THEN st
  ELSE LET char == inner[i]
       IN IF st.escape
            THEN scan_list(inner, i + 1,
                   [st EXCEPT !.current_token = Append(@, char), !.escape = FALSE])
          ELSE IF char = "\\"
            THEN scan_list(inner, i + 1, [st EXCEPT !.escape = TRUE])
          ELSE IF st.in_quote
            THEN scan_list(inner, i + 1,
                   [st EXCEPT !.current_token = Append(@, char),
                              !.in_quote = (char # st.quote_char)])
          ELSE IF char \in QuoteChars
            THEN scan_list(inner, i + 1,
                   [st EXCEPT !.in_quote = TRUE, !.quote_char = char,
                              !.current_token = Append(@, char)])
          ELSE IF char = ","
            THEN scan_list(inner, i + 1,
                   [st EXCEPT !.tokens = Append(@, strip(st.current_token)),
                              !.current_token = <<>>])
          ELSE scan_list(inner, i + 1, [st EXCEPT !.current_token = Append(@, char)])

\* After the loop: the last token is added when it is not empty.
tokens_of(st) ==
  IF st.current_token # <<>>
    THEN Append(st.tokens, strip(st.current_token))
    ELSE st.tokens

\* The second loop: one layer of quotes is dropped from each token.
unquoted_tokens(tokens) == [k \in 1..Len(tokens) |-> PyStr(unquote(tokens[k]))]

tokenize(inner) ==
  IF inner = <<>>
    THEN <<>>
    ELSE unquoted_tokens(tokens_of(scan_list(inner, 1,
           [tokens |-> <<>>, current_token |-> <<>>, in_quote |-> FALSE,
            quote_char |-> "", escape |-> FALSE])))

custom_parse_list(t) == tokenize(strip(SubSeq(t, 2, Len(t) - 1)))

\* try: json.loads(remainder) / except json.JSONDecodeError: custom_parse_list
strict_or_lenient(remainder, strict) ==
  IF strict.ok THEN strict.value.elems ELSE custom_parse_list(remainder)

\* The enum of a bracketed remainder.
enum_values(remainder) == strict_or_lenient(remainder, json_loads(remainder))

----------------------------------------------------------------------------
(* The parsers.  Both source files hold them; copy says which file's       *)
(* functions run.  A result's "raised" is TRUE where Python would leave    *)
(* the function by an exception.                                           *)

TestCopy == "test_respsml.py"
ChatCopy == "q_a_with_grounding.py"

\* A dict is a function from keys to values; {} is the empty function.
EmptyDict == <<>>

\* d[key] = value
dict_set(d, key, value) ==
  [k \in DOMAIN d \cup {key} |-> IF k = key THEN value ELSE d[k]]

\* A merge that keeps the first value of a key.
dict_update_first(d, other) ==
  [k \in DOMAIN d \cup DOMAIN other |-> IF k \in DOMAIN d THEN d[k] ELSE other[k]]

\* d.update(other)
dict_update(d, other) ==
  [k \in DOMAIN d \cup DOMAIN other |-> IF k \in DOMAIN other THEN other[k] ELSE d[k]]

StringLeaf == [type |-> "string"]
StringArray == [type |-> "array", items |-> StringLeaf]

\* isinstance(item, dict): a bullet item is a schema dict or a Python str.
is_dict(item) == "type" \in DOMAIN item

RECURSIVE merge_from(_, _, _)
merge_from(schema_list, k, properties) ==
  IF k > Len(schema_list)
    THEN properties
    ELSE LET item == schema_list[k]
         IN merge_from(schema_list, k + 1,
              IF is_dict(item) /\ item.type = "object" /\ "properties" \in DOMAIN item
                THEN dict_update(properties, item.properties)
                ELSE properties)

merge_object_schemas(schema_list) ==
  [type |-> "object", properties |-> merge_from(schema_list, 1, EmptyDict)]

\* line.lstrip(" ").startswith("-"): the bullet test of parse_properties' loop.
is_bullet_line(line) == startswith(lstrip(line, SpaceChar), "-")

\* next_line.lstrip().startswith("-"): the bullet test before and inside
\* parse_array_block.
is_bullet_any_ws(line) == startswith(lstrip(line, WhitespaceChars), "-")

\* A walk that has no test for lines without a colon.
is_colonless_unguarded(line) == FALSE

\* ":" not in line.lstrip(" ")
is_colonless(line) == ":" \notin Range(lstrip(line, SpaceChar))

\* The key as recorded: test_respsml.py drops one layer of quotes,
\* q_a_with_grounding.py records key.strip() as it is.
property_key(copy, key) == IF copy = TestCopy THEN unquote(strip(key)) ELSE strip(key)

is_bracketed(remainder) == startswith(remainder, "[") /\ endswith(remainder, "]")

\* A bullet that also takes the lines at its own indent as continuations.
continuation_end_same_indent(lines, idx, bullet_indent) ==
  LET stops == {j \in idx..(Len(lines) - 1) : indent_of(At(lines, j)) < bullet_indent}
  IN IF stops = {}
       THEN Len(lines)
       ELSE CHOOSE j \in stops : \A k \in stops : j <= k

\* The first line at or after idx that is not a continuation of the bullet.
continuation_end(lines, idx, bullet_indent) ==
  LET stops == {j \in idx..(Len(lines) - 1) : indent_of(At(lines, j)) <= bullet_indent}
  IN IF stops = {}
       THEN Len(lines)
       ELSE CHOOSE j \in stops : \A k \in stops : j <= k

min_indent_of(bullet_lines) ==
  LET indents == {indent_of(rstrip(bullet_lines[k], {"\n"})) : k \in 1..Len(bullet_lines)}
  IN CHOOSE m \in indents : \A n \in indents : m <= n

\* A split at the last colon of the line.
key_and_remainder_last_colon(line) ==
  LET s == lstrip(line, SpaceChar)
      colons == {i \in 1..Len(s) : s[i] = ":"}
  IN IF colons = {}
       THEN <<s>>
       ELSE LET c == CHOOSE i \in colons : \A j \in colons : j <= i
            IN <<SubSeq(s, 1, c - 1), SubSeq(s, c + 1, Len(s))>>

\* line.lstrip(" ").split(":", 1)
key_and_remainder(line) == split_once(lstrip(line, SpaceChar), ":")

RECURSIVE parse_properties_from(_, _, _, _, _)
RECURSIVE record_property(_, _, _, _, _, _)
RECURSIVE property_recorded(_, _, _, _, _, _)
RECURSIVE property_definition(_, _, _, _, _)
RECURSIVE parse_array_block(_, _, _, _)
RECURSIVE array_items_from(_, _, _, _, _)
RECURSIVE items_after(_, _, _, _, _)
RECURSIVE parse_bullet_item(_, _, _, _)
RECURSIVE bullet_value(_, _, _)

\* The while loop of parse_properties, entered at line_index.
parse_properties_from(copy, lines, base_indent, line_index, properties) ==
  IF line_index >= Len(lines)
    THEN [properties |-> properties, line_index |-> line_index, raised |-> FALSE]
  ELSE IF indent_of(At(lines, line_index)) < base_indent
    THEN [properties |-> properties, line_index |-> line_index, raised |-> FALSE]
  ELSE IF is_bullet_line(At(lines, line_index))
    THEN [properties |-> properties, line_index |-> line_index, raised |-> FALSE]
  ELSE IF is_colonless(At(lines, line_index))
    THEN parse_properties_from(copy, lines, base_indent, line_index + 1, properties)
  ELSE record_property(copy, lines, base_indent, line_index, properties,
         key_and_remainder(At(lines, line_index)))

\* key, remainder = ...split(":", 1) and the rest of the loop body; the
\* unpacking raises ValueError unless there are two parts.
record_property(copy, lines, base_indent, line_index, properties, parts) ==
  IF Len(parts) # 2
    THEN [properties |-> properties, line_index |-> line_index, raised |-> TRUE]
    ELSE property_recorded(copy, lines, base_indent, properties, parts[1],
           property_definition(copy, lines, line_index,
                               indent_of(At(lines, line_index)), strip(parts[2])))

\* properties[key] = definition; line_index += 1; and the loop goes on.
property_recorded(copy, lines, base_indent, properties, key, d) ==
  IF d.raised
    THEN [properties |-> properties, line_index |-> d.line_index, raised |-> TRUE]
    ELSE parse_properties_from(copy, lines, base_indent, d.line_index + 1,
           dict_set(properties, property_key(copy, key), d.definition))

\* definition, new_index = parse_array_block(...); line_index = new_index - 1
array_delegated(a) ==
  [definition |-> a.definition, line_index |-> a.new_index - 1, raised |-> a.raised]

\* The definition recorded for the property line at line_index, and the index
\* of the last line it consumed.
property_definition(copy, lines, line_index, indent, remainder) ==
  IF is_bracketed(remainder)
    THEN [definition |-> [type |-> "string", enum |-> enum_values(remainder)],
          line_index |-> line_index, raised |-> FALSE]
  ELSE IF remainder # <<>>
    THEN [definition |-> [type |-> "string", description |-> remainder],
          line_index |-> line_index, raised |-> FALSE]
  ELSE IF line_index + 1 < Len(lines)
            /\ is_bullet_any_ws(At(lines, line_index + 1))
            /\ indent_of(At(lines, line_index + 1)) > indent
    THEN array_delegated(parse_array_block(copy, lines, line_index + 1, indent))
  ELSE [definition |-> StringLeaf, line_index |-> line_index, raised |-> FALSE]

parse_properties(copy, lines, base_indent, start_index) ==
  parse_properties_from(copy, lines, base_indent, start_index, EmptyDict)

\* The while loop of parse_array_block.
array_items_from(copy, lines, idx, bullet_indent, items) ==
  IF idx >= Len(lines)
    THEN [items |-> items, idx |-> idx, raised |-> FALSE]
  ELSE IF indent_of(At(lines, idx)) < bullet_indent \/ ~is_bullet_any_ws(At(lines, idx))
    THEN [items |-> items, idx |-> idx, raised |-> FALSE]
  ELSE items_after(copy, lines, bullet_indent, items,
                   parse_bullet_item(copy, lines, idx, bullet_indent))

\* item, idx = parse_bullet_item(...); items.append(item)
items_after(copy, lines, bullet_indent, items, b) ==
  IF b.raised
    THEN [items |-> items, idx |-> b.idx, raised |-> TRUE]
    ELSE array_items_from(copy, lines, b.idx, bullet_indent, Append(items, b.value))

\* An array that merges the objects among its items whatever the others are.
array_definition_any_object(items) ==
  IF \E k \in 1..Len(items) : is_dict(items[k])
    THEN [type |-> "array", items |-> merge_object_schemas(items)]
    ELSE StringArray

\* The schema of the collected items: merged when all are objects.
array_definition(items) ==
  IF items # <<>> /\ \A k \in 1..Len(items) : is_dict(items[k])
    THEN [type |-> "array", items |-> merge_object_schemas(items)]
    ELSE StringArray

array_block_result(r) ==
  [definition |-> array_definition(r.items), new_index |-> r.idx, raised |-> r.raised]

parse_array_block(copy, lines, start_index, parent_indent) ==
  IF start_index >= Len(lines)
    THEN [definition |-> StringArray, new_index |-> start_index, raised |-> FALSE]
    ELSE array_block_result(array_items_from(copy, lines, start_index,
                              indent_of(At(lines, start_index)), <<>>))

\* content = line.lstrip()[1:].lstrip()
bullet_content(line) ==
  lstrip(SubSeq(lstrip(line, WhitespaceChars), 2, Len(lstrip(line, WhitespaceChars))),
         WhitespaceChars)

\* bullet_lines: the bullet's content at the bullet's indent, then the
\* continuation lines lines[idx + 1 : next].
bullet_lines_of(lines, idx, bullet_indent, next) ==
  <<[k \in 1..bullet_indent |-> " "] \o bullet_content(At(lines, idx))>>
    \o SubSeq(lines, idx + 2, next)

\* norm_lines: every line loses min_indent leading characters.
norm_lines_of(bullet_lines, min_indent) ==
  [k \in 1..Len(bullet_lines) |->
     SubSeq(bullet_lines[k], min_indent + 1, Len(bullet_lines[k]))]

\* props, _ = parse_properties(norm_lines, 0, 0); value = {...}
object_item(p, next) ==
  [value |-> [type |-> "object", properties |-> p.properties],
   idx |-> next, raised |-> p.raised]

\* value = " ".join(line_item.strip() for line_item in bullet_lines)
text_item(bullet_lines, next) ==
  [value |-> PyStr(join(<<" ">>, [k \in 1..Len(bullet_lines) |-> strip(bullet_lines[k])])),
   idx |-> next, raised |-> FALSE]

\* The object-or-string decision on the collected bullet_lines.
bullet_value(copy, bullet_lines, next) ==
  IF \E k \in 1..Len(bullet_lines) : ":" \in Range(bullet_lines[k])
    THEN object_item(parse_properties(copy,
                       norm_lines_of(bullet_lines, min_indent_of(bullet_lines)), 0, 0),
                     next)
    ELSE text_item(bullet_lines, next)

\* line = lines[idx] raises IndexError past the end.
bullet_block(copy, lines, idx, bullet_indent, next) ==
  bullet_value(copy, bullet_lines_of(lines, idx, bullet_indent, next), next)

parse_bullet_item(copy, lines, idx, bullet_indent) ==
  IF idx >= Len(lines)
    THEN [value |-> PyStr(<<>>), idx |-> idx, raised |-> TRUE]
    ELSE bullet_block(copy, lines, idx, bullet_indent,
                      continuation_end(lines, idx + 1, bullet_indent))

----------------------------------------------------------------------------
(* The Schema Extractor *)

Marker == <<":", ":", ":", ":">>

\* A marker test that does not trim the line.
is_marker_untrimmed(line) == line = Marker

\* line.strip() == "::::"
is_marker(line) == strip(line) = Marker

\* A filter that keeps whitespace-only lines.
is_blank_kept(line) == FALSE

\* if line.strip()
is_blank(line) == strip(line) = <<>>

\* What extract_response_schema returns: None, the schema document, or (for
\* an exception leaving it) Raised.
None == PyNone
Raised == [py |-> "exception"]

\* [line.rstrip() for line in ...]
rstrip_each(kept) == [k \in 1..Len(kept) |-> rstrip(kept[k], WhitespaceChars)]

\* The lines handed to parse_properties.
schema_lines_of(lines, schema_start) ==
  rstrip_each(SelectSeq(SubSeq(lines, schema_start + 1, Len(lines)),
                        LAMBDA line : ~is_blank(line)))

\* The for loop: schema_start is the index after the first marker line, or
\* None (here -1) when no line is one.
schema_start_of(lines) ==
  IF \A i \in 0..(Len(lines) - 1) : ~is_marker(At(lines, i))
    THEN -1
    ELSE (CHOOSE i \in 0..(Len(lines) - 1) :
            is_marker(At(lines, i)) /\ \A j \in 0..(i - 1) : ~is_marker(At(lines, j))) + 1

\* return {"type": "object", "properties": props}
document_of(p) ==
  IF p.raised THEN Raised ELSE [type |-> "object", properties |-> p.properties]

schema_from(copy, lines, schema_start) ==
  IF schema_start = -1
    THEN None
    ELSE document_of(parse_properties(copy, schema_lines_of(lines, schema_start), 0, 0))

schema_of_lines(copy, lines) == schema_from(copy, lines, schema_start_of(lines))

extract_response_schema(copy, raw_text) == schema_of_lines(copy, splitlines(raw_text))

----------------------------------------------------------------------------
(* get_model_response, up to its call of generate_response *)

is_text_part(part) == "text" \in DOMAIN part

\* A test that also takes a document without properties as false.
truthy_properties(value) == value # None /\ value.properties # <<>>

\* if response_schema := ...: None and the empty dict are false.
truthy(value) == value # None /\ DOMAIN value # {}

\* A part ends the first for loop by its schema (break) or by an exception.
ends_loop(value) == value = Raised \/ truthy(value)

config_of(value) ==
  IF value = Raised
    THEN Raised
    ELSE [responseMimeType |-> "application/json", responseSchema |-> value]

\* extract_response_schema of each text part (None for any other part).
part_schemas(parts) ==
  [k \in 1..Len(parts) |->
     IF is_text_part(parts[k])
       THEN extract_response_schema(ChatCopy, parts[k].text)
       ELSE None]

\* The first for loop: the first part with a schema sets the configuration
\* and ends the loop; an exception in a part reached before that leaves
\* get_model_response.
config_from(schemas) ==
  IF \A k \in 1..Len(schemas) : ~ends_loop(schemas[k])
    THEN None
    ELSE config_of(schemas[CHOOSE k \in 1..Len(schemas) :
                     ends_loop(schemas[k]) /\ \A j \in 1..(k - 1) : ~ends_loop(schemas[j])])

\* The generation_config handed to generate_response for this history.
generation_config_of(history) ==
  IF history[Len(history)].role # "user"
    THEN None
    ELSE config_from(part_schemas(history[Len(history)].parts))

\* user_prompt["parts"] += user_attachments: one list per text part; no text
\* of the model names a file ([[...]]), so every list is empty.
with_attachments(parts) ==
  parts \o [k \in 1..Cardinality({j \in 1..Len(parts) : is_text_part(parts[j])}) |->
              [attachments |-> <<>>]]

----------------------------------------------------------------------------
(* The prompt texts of the model *)

\* a: x
LinePlain == <<"a", ":", " ", "x">>

\* "a": y: z
LineQuotedKey == <<"\"", "a", "\"", ":", " ", "y", ":", " ", "z">>

\* k:
LineKeyOnly == <<"k", ":">>

\*  - a: x
LineBulletA == <<" ", "-", " ", "a", ":", " ", "x">>

\*  - b: [x, 'y']
LineBulletEnum == <<" ", "-", " ", "b", ":", " ", "[", "x", ",", " ", "'", "y", "'", "]">>

\*  - a: [1, "x"]
LineBulletJson == <<" ", "-", " ", "a", ":", " ", "[", "1", ",", " ", "\"", "x", "\"", "]">>

\* b: [1, "x"]
LineEnumJson == <<"b", ":", " ", "[", "1", ",", " ", "\"", "x", "\"", "]">>

\*    b: z
LineContinuation == <<" ", " ", " ", "b", ":", " ", "z">>

\*  - x
LineBulletText == <<" ", "-", " ", "x">>

\* x
LineColonless == <<"x">>

\* two spaces
LineBlank == <<" ", " ">>

\* ::::
LineMarker == <<":", ":", ":", ":">>

\* <TAB>- a: x
LineTabBullet == <<"\t", "-", " ", "a", ":", " ", "x">>

\* - b: y
LineBulletTop == <<"-", " ", "b", ":", " ", "y">>

\*    - b: y
LineBulletDeep == <<" ", " ", " ", "-", " ", "b", ":", " ", "y">>

\* 'b': ["x, y]
LineOpenQuote == <<"'", "b", "'", ":", " ", "[", "\"", "x", ",", " ", "y", "]">>

\*  - k:
LineBulletKey == <<" ", "-", " ", "k", ":">>

\*    y
LineTextContinuation == <<" ", " ", " ", "y">>

LinePool ==
  { LinePlain, LineQuotedKey, LineKeyOnly, LineBulletA, LineBulletEnum, LineBulletJson,
    LineEnumJson, LineContinuation, LineBulletText, LineColonless, LineBlank, LineMarker,
    LineTabBullet, LineBulletTop, LineBulletDeep, LineOpenQuote, LineBulletKey,
    LineTextContinuation }

\* What the prompt holds before the lines of LinePool are added: nothing, a
\* marker line, a line and a marker line written with spaces around it, or
\* a marker line and the key line of an array.
OpeningMarker == <<":", ":", ":", ":">>
OpeningPrefixed == <<"a", ":", " ", "x", "\n", " ", ":", ":", ":", ":", " ">>
OpeningArray == <<":", ":", ":", ":", "\n", "k", ":">>
Openings == { <<>>, OpeningMarker, OpeningPrefixed, OpeningArray }

\* The number of lines added to an opening.
MaxLines == 3

----------------------------------------------------------------------------
\* No return value is in flight.
NoReturn == [fn |-> "none"]

(* The state machine: a prompt is entered line by line (Alt+Enter adds a   *)
(* line break), then test_respsml.py's main and one turn of                *)
(* q_a_with_grounding.py's main each read it.                              *)

Init ==
  /\ text \in Openings
  /\ typed = 0
  /\ test_pc = "input"
  /\ schema = None
  /\ chat_pc = "input"
  /\ conversation_history = <<>>
  /\ generation_config = None
  /\ stack = <<>>
  /\ ret = NoReturn

\* custom_input: binding_handler_alt_enter inserts "\n", the user types a line.
TypeLine(line) ==
  /\ test_pc = "input" /\ chat_pc = "input"
  /\ typed < MaxLines
  /\ text' = IF text = <<>> THEN line ELSE text \o <<"\n">> \o line
  /\ typed' = typed + 1
  /\ UNCHANGED <<test_pc, schema, chat_pc, conversation_history, generation_config>>
  /\ UNCHANGED walk_vars

\* test_respsml.py main: schema = extract_response_schema(text); exit 1 on None.
TestMain ==
  /\ test_pc = "input"
  /\ schema' = extract_response_schema(TestCopy, text)
  /\ test_pc' = IF schema' = Raised THEN "crashed"
                ELSE IF schema' = None THEN "exit1" ELSE "printed"
  /\ UNCHANGED <<text, typed, chat_pc, conversation_history, generation_config>>
  /\ UNCHANGED walk_vars

\* q_a_with_grounding.py main: one turn, up to the call of generate_response.
\* get_user_input returns only a non-empty text.
ChatTurn ==
  /\ chat_pc = "input"
  /\ text # <<>>
  /\ LET user_record == [role |-> "user", parts |-> <<[text |-> text]>>]
         history == Append(conversation_history, user_record)
         config == generation_config_of(history)
     IN /\ generation_config' = config
        /\ conversation_history' =
             IF config = Raised
               THEN history
               ELSE Append(conversation_history,
                           [user_record EXCEPT !.parts = with_attachments(@)])
        /\ chat_pc' = IF config = Raised THEN "crashed" ELSE "requested"
  /\ UNCHANGED <<text, typed, test_pc, schema>>
  /\ UNCHANGED walk_vars

Next ==
  \/ \E line \in LinePool : TypeLine(line)
  \/ TestMain
  \/ ChatTurn

Spec == Init /\ [][Next]_vars

----------------------------------------------------------------------------
(* The compiler of test_respsml.py step by step: one action per loop       *)
(* iteration, call and return of parse_properties, parse_array_block and   *)
(* parse_bullet_item.  A frame holds a running call's local variables and  *)
(* pc, the place it has reached.                                           *)

Top == stack[Len(stack)]
Callers == SubSeq(stack, 1, Len(stack) - 1)
Running(fn, pc) ==
  test_pc = "walking" /\ stack # <<>> /\ Top.fn = fn /\ Top.pc = pc /\ ret = NoReturn
Returned(fn, pc, callee) ==
  test_pc = "walking" /\ stack # <<>> /\ Top.fn = fn /\ Top.pc = pc /\ ret.fn = callee

\* A call of parse_properties(lines, base_indent, start_index).
properties_frame(lines, base_indent, start_index) ==
  [fn |-> "parse_properties", pc |-> "loop", lines |-> lines,
   base_indent |-> base_indent, start_index |-> start_index, line_index |-> start_index,
   properties |-> EmptyDict, key |-> <<>>, indent |-> 0]

\* A call of parse_array_block(lines, start_index, _parent_indent).
array_frame(lines, start_index, parent_indent) ==
  [fn |-> "parse_array_block", pc |-> "entry", lines |-> lines,
   start_index |-> start_index, bullet_indent |-> 0, items |-> <<>>,
   idx |-> start_index]

\* A call of parse_bullet_item(lines, idx, bullet_indent).
bullet_frame(lines, idx, bullet_indent) ==
  [fn |-> "parse_bullet_item", pc |-> "entry", lines |-> lines, idx |-> idx,
   bullet_indent |-> bullet_indent, bullet_lines |-> <<>>]

\* extract_response_schema up to its call of parse_properties.
walk_started(lines, schema_start) ==
  IF schema_start = -1
    THEN /\ schema' = None
         /\ test_pc' = "exit1"
         /\ stack' = <<>>
    ELSE /\ schema' = schema
         /\ test_pc' = "walking"
         /\ stack' = <<properties_frame(schema_lines_of(lines, schema_start), 0, 0)>>

WalkStart ==
  /\ test_pc = "input" /\ chat_pc = "input"
  /\ walk_started(splitlines(text), schema_start_of(splitlines(text)))
  /\ ret' = NoReturn
  /\ UNCHANGED <<text, typed, chat_pc, conversation_history, generation_config>>

\* The tests that end the while loop of parse_properties.
properties_ends(f) ==
  IF f.line_index >= Len(f.lines) THEN TRUE
  ELSE IF indent_of(At(f.lines, f.line_index)) < f.base_indent THEN TRUE
  ELSE is_bullet_line(At(f.lines, f.line_index))

\* The line the loop is at: its parts, its remainder, its indent.
parts_of(f) == key_and_remainder(At(f.lines, f.line_index))
remainder_of(f) == strip(parts_of(f)[2])
line_indent(f) == indent_of(At(f.lines, f.line_index))

\* A dispatch that also takes a bullet at the key's own indent.
delegates_same_indent(f) ==
  /\ remainder_of(f) = <<>>
  /\ f.line_index + 1 < Len(f.lines)
  /\ is_bullet_any_ws(At(f.lines, f.line_index + 1))
  /\ indent_of(At(f.lines, f.line_index + 1)) >= line_indent(f)

\* An empty remainder followed by a deeper bullet line: the array block.
delegates(f) ==
  /\ remainder_of(f) = <<>>
  /\ f.line_index + 1 < Len(f.lines)
  /\ is_bullet_any_ws(At(f.lines, f.line_index + 1))
  /\ indent_of(At(f.lines, f.line_index + 1)) > line_indent(f)

\* The definition of a property line that has no array block.
simple_definition(remainder) ==
  IF is_bracketed(remainder)
    THEN [type |-> "string", enum |-> enum_values(remainder)]
  ELSE IF remainder # <<>>
    THEN [type |-> "string", description |-> remainder]
  ELSE StringLeaf

\* return properties, line_index
PropertiesExit ==
  /\ Running("parse_properties", "loop")
  /\ properties_ends(Top)
  /\ stack' = Callers
  /\ ret' = [fn |-> "parse_properties", properties |-> Top.properties,
             line_index |-> Top.line_index]
  /\ UNCHANGED <<text, typed, test_pc, schema, chat_pc, conversation_history,
                 generation_config>>

\* if ":" not in line.lstrip(" "): line_index += 1; continue
SkipLine ==
  /\ Running("parse_properties", "loop")
  /\ ~properties_ends(Top)
  /\ is_colonless(At(Top.lines, Top.line_index))
  /\ stack' = [stack EXCEPT ![Len(stack)].line_index = @ + 1]
  /\ UNCHANGED <<text, typed, test_pc, schema, chat_pc, conversation_history,
                 generation_config, ret>>

\* One iteration that records a property without an array block.  The
\* unpacking of the split raises ValueError unless it has two parts.
RecordProperty ==
  /\ Running("parse_properties", "loop")
  /\ ~properties_ends(Top)
  /\ ~is_colonless(At(Top.lines, Top.line_index))
  /\ IF Len(parts_of(Top)) # 2
       THEN /\ stack' = <<>>
            /\ test_pc' = "crashed"
            /\ schema' = Raised
       ELSE /\ ~delegates(Top)
            /\ stack' = [stack EXCEPT ![Len(stack)] =
                 [@ EXCEPT !.key = property_key(TestCopy, parts_of(Top)[1]),
                           !.indent = line_indent(Top),
                           !.properties = dict_set(@, property_key(TestCopy, parts_of(Top)[1]),
                                                   simple_definition(remainder_of(Top))),
                           !.line_index = @ + 1]]
            /\ UNCHANGED <<test_pc, schema>>
  /\ UNCHANGED <<text, typed, chat_pc, conversation_history, generation_config, ret>>

\* definition, new_index = parse_array_block(lines, line_index + 1, indent)
DelegateArray ==
  /\ Running("parse_properties", "loop")
  /\ ~properties_ends(Top)
  /\ ~is_colonless(At(Top.lines, Top.line_index))
  /\ Len(parts_of(Top)) = 2
  /\ delegates(Top)
  /\ stack' = Append(
       [stack EXCEPT ![Len(stack)] =
          [@ EXCEPT !.pc = "array",
                    !.key = property_key(TestCopy, parts_of(Top)[1]),
                    !.indent = line_indent(Top)]],
       array_frame(Top.lines, Top.line_index + 1, line_indent(Top)))
  /\ UNCHANGED <<text, typed, test_pc, schema, chat_pc, conversation_history,
                 generation_config, ret>>

\* line_index = new_index - 1; properties[key] = definition; line_index += 1
PropertiesResume ==
  /\ Returned("parse_properties", "array", "parse_array_block")
  /\ stack' = [stack EXCEPT ![Len(stack)] =
       [@ EXCEPT !.pc = "loop",
                 !.properties = dict_set(@, Top.key, ret.definition),
                 !.line_index = (ret.new_index - 1) + 1]]
  /\ ret' = NoReturn
  /\ UNCHANGED <<text, typed, test_pc, schema, chat_pc, conversation_history,
                 generation_config>>

\* parse_array_block lines 156-160: the empty fallback, or bullet_indent,
\* items and idx are set.
ArrayEntry ==
  /\ Running("parse_array_block", "entry")
  /\ IF Top.start_index >= Len(Top.lines)
       THEN /\ stack' = Callers
            /\ ret' = [fn |-> "parse_array_block", definition |-> StringArray,
                       new_index |-> Top.start_index]
       ELSE /\ stack' = [stack EXCEPT ![Len(stack)] =
                 [@ EXCEPT !.pc = "loop",
                           !.bullet_indent = indent_of(At(Top.lines, Top.start_index)),
                           !.items = <<>>,
                           !.idx = Top.start_index]]
            /\ ret' = ret
  /\ UNCHANGED <<text, typed, test_pc, schema, chat_pc, conversation_history,
                 generation_config>>

\* A loop that goes on whatever the line is, as long as it is not less
\* indented.
array_ends_by_indent(f) ==
  IF f.idx >= Len(f.lines) THEN TRUE
  ELSE indent_of(At(f.lines, f.idx)) < f.bullet_indent

\* The tests that end the while loop of parse_array_block.
array_ends(f) ==
  IF f.idx >= Len(f.lines) THEN TRUE
  ELSE IF indent_of(At(f.lines, f.idx)) < f.bullet_indent THEN TRUE
  ELSE ~is_bullet_any_ws(At(f.lines, f.idx))

\* The loop of parse_array_block ends: the merged or the string array is returned.
ArrayExit ==
  /\ Running("parse_array_block", "loop")
  /\ array_ends(Top)
  /\ stack' = Callers
  /\ ret' = [fn |-> "parse_array_block", definition |-> array_definition(Top.items),
             new_index |-> Top.idx]
  /\ UNCHANGED <<text, typed, test_pc, schema, chat_pc, conversation_history,
                 generation_config>>

\* item, idx = parse_bullet_item(lines, idx, bullet_indent): the call
CallBulletItem ==
  /\ Running("parse_array_block", "loop")
  /\ ~array_ends(Top)
  /\ stack' = Append([stack EXCEPT ![Len(stack)].pc = "item"],
                     bullet_frame(Top.lines, Top.idx, Top.bullet_indent))
  /\ UNCHANGED <<text, typed, test_pc, schema, chat_pc, conversation_history,
                 generation_config, ret>>

\* item, idx = ...: the assignment; items.append(item)
ArrayResume ==
  /\ Returned("parse_array_block", "item", "parse_bullet_item")
  /\ stack' = [stack EXCEPT ![Len(stack)] =
       [@ EXCEPT !.pc = "loop", !.items = Append(@, ret.value), !.idx = ret.idx]]
  /\ ret' = NoReturn
  /\ UNCHANGED <<text, typed, test_pc, schema, chat_pc, conversation_history,
                 generation_config>>

\* An entry that leaves idx at the bullet line.
bullet_entered_in_place(f) ==
  [f EXCEPT !.pc = "collect",
            !.bullet_lines =
               <<[k \in 1..f.bullet_indent |-> " "] \o bullet_content(At(f.lines, f.idx))>>]

\* content = ...; bullet_lines = [" " * bullet_indent + content]; idx += 1
bullet_entered(f) ==
  [f EXCEPT !.pc = "collect",
            !.bullet_lines =
               <<[k \in 1..f.bullet_indent |-> " "] \o bullet_content(At(f.lines, f.idx))>>,
            !.idx = @ + 1]

\* parse_bullet_item lines 184-187; lines[idx] raises IndexError past the end.
BulletEntry ==
  /\ Running("parse_bullet_item", "entry")
  /\ IF Top.idx >= Len(Top.lines)
       THEN /\ stack' = <<>>
            /\ test_pc' = "crashed"
            /\ schema' = Raised
       ELSE /\ stack' = [stack EXCEPT ![Len(stack)] = bullet_entered(Top)]
            /\ UNCHANGED <<test_pc, schema>>
  /\ UNCHANGED <<text, typed, chat_pc, conversation_history, generation_config, ret>>

\* A loop that also takes a line at the bullet's own indent.
continues_same_indent(f) ==
  /\ f.idx < Len(f.lines)
  /\ indent_of(At(f.lines, f.idx)) >= f.bullet_indent

\* The test of the while loop of parse_bullet_item and of its if.
continues(f) ==
  /\ f.idx < Len(f.lines)
  /\ indent_of(At(f.lines, f.idx)) > f.bullet_indent

\* bullet_lines.append(next_line); idx += 1
BulletCollect ==
  /\ Running("parse_bullet_item", "collect")
  /\ continues(Top)
  /\ stack' = [stack EXCEPT ![Len(stack)] =
       [@ EXCEPT !.bullet_lines = Append(@, At(Top.lines, Top.idx)), !.idx = @ + 1]]
  /\ UNCHANGED <<text, typed, test_pc, schema, chat_pc, conversation_history,
                 generation_config, ret>>

\* A test that looks for a colon in the bullet's own line only.
has_colon_own_line(bullet_lines) == ":" \in Range(bullet_lines[1])

\* any(":" in line_item for line_item in bullet_lines)
has_colon(bullet_lines) ==
  \E k \in 1..Len(bullet_lines) : ":" \in Range(bullet_lines[k])

\* No colon in bullet_lines: the joined text is returned.
BulletText ==
  /\ Running("parse_bullet_item", "collect")
  /\ ~continues(Top)
  /\ ~has_colon(Top.bullet_lines)
  /\ stack' = Callers
  /\ ret' = [fn |-> "parse_bullet_item",
             value |-> text_item(Top.bullet_lines, Top.idx).value, idx |-> Top.idx]
  /\ UNCHANGED <<text, typed, test_pc, schema, chat_pc, conversation_history,
                 generation_config>>

\* props, _ = parse_properties(norm_lines, 0, 0): the call
BulletObject ==
  /\ Running("parse_bullet_item", "collect")
  /\ ~continues(Top)
  /\ has_colon(Top.bullet_lines)
  /\ stack' = Append(
       [stack EXCEPT ![Len(stack)].pc = "props"],
       properties_frame(norm_lines_of(Top.bullet_lines, min_indent_of(Top.bullet_lines)),
                        0, 0))
  /\ UNCHANGED <<text, typed, test_pc, schema, chat_pc, conversation_history,
                 generation_config, ret>>

\* value = {"type": "object", "properties": props}; return value, idx
BulletResume ==
  /\ Returned("parse_bullet_item", "props", "parse_properties")
  /\ stack' = Callers
  /\ ret' = [fn |-> "parse_bullet_item",
             value |-> [type |-> "object", properties |-> ret.properties],
             idx |-> Top.idx]
  /\ UNCHANGED <<text, typed, test_pc, schema, chat_pc, conversation_history,
                 generation_config>>

\* extract_response_schema returns the document; main prints it.
WalkEnd ==
  /\ test_pc = "walking"
  /\ stack = <<>>
  /\ ret.fn = "parse_properties"
  /\ schema' = [type |-> "object", properties |-> ret.properties]
  /\ test_pc' = "printed"
  /\ ret' = NoReturn
  /\ UNCHANGED <<text, typed, chat_pc, conversation_history, generation_config, stack>>

WalkNext ==
  \/ \E line \in LinePool : TypeLine(line)
  \/ WalkStart
  \/ PropertiesExit
  \/ SkipLine
  \/ RecordProperty
  \/ DelegateArray
  \/ PropertiesResume
  \/ ArrayEntry
  \/ ArrayExit
  \/ CallBulletItem
  \/ ArrayResume
  \/ BulletEntry
  \/ BulletCollect
  \/ BulletText
  \/ BulletObject
  \/ BulletResume
  \/ WalkEnd

WalkSpec == Init /\ [][WalkNext]_vars

\* The steps of the compiler once extract_response_schema has been called.
WalkStep ==
  \/ PropertiesExit
  \/ SkipLine
  \/ RecordProperty
  \/ DelegateArray
  \/ PropertiesResume
  \/ ArrayEntry
  \/ ArrayExit
  \/ CallBulletItem
  \/ ArrayResume
  \/ BulletEntry
  \/ BulletCollect
  \/ BulletText
  \/ BulletObject
  \/ BulletResume
  \/ WalkEnd

----------------------------------------------------------------------------
(* custom_parse_list, one character at a time *)

\* The variables that main and the chat loop own.
main_vars == <<text, typed, test_pc, schema, chat_pc, conversation_history,
               generation_config>>

\* The characters the bracketed texts are made of, and their longest length
\* between the brackets.
ListChars == {"a", ",", "'", "\"", "\\", " "}
MaxInner == 5
BracketedTexts ==
  UNION {{<<"[">> \o body \o <<"]">> : body \in [1..n -> ListChars]} : n \in 0..MaxInner}

\* A call of custom_parse_list(text).
list_frame(t) ==
  [fn |-> "custom_parse_list", pc |-> "entry", text |-> t, inner |-> <<>>,
   pos |-> 0, tokens |-> <<>>, current_token |-> <<>>, in_quote |-> FALSE,
   quote_char |-> "", escape |-> FALSE, result |-> <<>>]

\* custom_parse_list is called on a bracketed remainder.
ListInit ==
  /\ text = <<>>
  /\ typed = 0
  /\ test_pc = "input"
  /\ schema = None
  /\ chat_pc = "input"
  /\ conversation_history = <<>>
  /\ generation_config = None
  /\ stack \in {<<list_frame(t)>> : t \in BracketedTexts}
  /\ ret = NoReturn

InList(pc) == stack # <<>> /\ Top.fn = "custom_parse_list" /\ Top.pc = pc /\ ret = NoReturn
InListLoop == InList("loop") /\ Top.pos < Len(Top.inner)
ListChar == At(Top.inner, Top.pos)

\* inner = text[1:-1].strip(); an empty inner returns [].
ListEntry ==
  /\ InList("entry")
  /\ IF strip(SubSeq(Top.text, 2, Len(Top.text) - 1)) = <<>>
       THEN /\ stack' = Callers
            /\ ret' = [fn |-> "custom_parse_list", value |-> <<>>]
       ELSE /\ stack' = [stack EXCEPT ![Len(stack)].pc = "loop",
                           ![Len(stack)].inner = strip(SubSeq(Top.text, 2, Len(Top.text) - 1))]
            /\ ret' = ret
  /\ UNCHANGED main_vars

\* if escape: the character is appended as it is.
EscapedChar ==
  /\ InListLoop
  /\ Top.escape
  /\ stack' = [stack EXCEPT ![Len(stack)].current_token = Append(@, ListChar),
                 ![Len(stack)].escape = FALSE,
                 ![Len(stack)].pos = @ + 1]
  /\ UNCHANGED <<main_vars, ret>>

\* if char == "\\": the next character is escaped.
Backslash ==
  /\ InListLoop
  /\ ~Top.escape
  /\ ListChar = "\\"
  /\ stack' = [stack EXCEPT ![Len(stack)].escape = TRUE,
                 ![Len(stack)].pos = @ + 1]
  /\ UNCHANGED <<main_vars, ret>>

\* if in_quote: the character is appended; the quote character ends the span.
QuotedChar ==
  /\ InListLoop
  /\ ~Top.escape
  /\ ListChar # "\\"
  /\ Top.in_quote
  /\ stack' = [stack EXCEPT ![Len(stack)].current_token = Append(@, ListChar),
                 ![Len(stack)].in_quote = (ListChar # Top.quote_char),
                 ![Len(stack)].pos = @ + 1]
  /\ UNCHANGED <<main_vars, ret>>

\* A quote character outside a span opens one.
OpenQuote ==
  /\ InListLoop
  /\ ~Top.escape
  /\ ~Top.in_quote
  /\ ListChar \in QuoteChars
  /\ stack' = [stack EXCEPT ![Len(stack)].in_quote = TRUE,
                 ![Len(stack)].quote_char = ListChar,
                 ![Len(stack)].current_token = Append(@, ListChar),
                 ![Len(stack)].pos = @ + 1]
  /\ UNCHANGED <<main_vars, ret>>

\* A comma outside a span ends the token.
Comma ==
  /\ InListLoop
  /\ ~Top.escape
  /\ ~Top.in_quote
  /\ ListChar = ","
  /\ stack' = [stack EXCEPT ![Len(stack)].tokens = Append(@, strip(Top.current_token)),
                 ![Len(stack)].current_token = <<>>,
                 ![Len(stack)].pos = @ + 1]
  /\ UNCHANGED <<main_vars, ret>>

\* Any other character outside a span is appended.
PlainChar ==
  /\ InListLoop
  /\ ~Top.escape
  /\ ~Top.in_quote
  /\ ListChar \notin QuoteChars \cup {",", "\\"}
  /\ stack' = [stack EXCEPT ![Len(stack)].current_token = Append(@, ListChar),
                 ![Len(stack)].pos = @ + 1]
  /\ UNCHANGED <<main_vars, ret>>

\* After the loop: if current_token: tokens.append(current_token.strip()).
LastToken ==
  /\ InList("loop")
  /\ Top.pos = Len(Top.inner)
  /\ stack' = [stack EXCEPT ![Len(stack)].pc = "unquote",
                 ![Len(stack)].pos = 0,
                 ![Len(stack)].tokens =
                   IF Top.current_token # <<>>
                     THEN Append(@, strip(Top.current_token))
                     ELSE @]
  /\ UNCHANGED <<main_vars, ret>>

\* One turn of the second loop: a token between matching quotes loses them.
UnquoteToken ==
  /\ InList("unquote")
  /\ Top.pos < Len(Top.tokens)
  /\ stack' = [stack EXCEPT ![Len(stack)].result =
                   Append(@, IF is_quoted(At(Top.tokens, Top.pos))
                               THEN SubSeq(At(Top.tokens, Top.pos), 2,
                                           Len(At(Top.tokens, Top.pos)) - 1)
                               ELSE At(Top.tokens, Top.pos)),
                 ![Len(stack)].pos = @ + 1]
  /\ UNCHANGED <<main_vars, ret>>

\* return result
ListReturn ==
  /\ InList("unquote")
  /\ Top.pos = Len(Top.tokens)
  /\ stack' = Callers
  /\ ret' = [fn |-> "custom_parse_list",
             value |-> [k \in 1..Len(Top.result) |-> PyStr(Top.result[k])]]
  /\ UNCHANGED main_vars

ListNext ==
  \/ ListEntry
  \/ EscapedChar
  \/ Backslash
  \/ QuotedChar
  \/ OpenQuote
  \/ Comma
  \/ PlainChar
  \/ LastToken
  \/ UnquoteToken
  \/ ListReturn

ListSpec == ListInit /\ [][ListNext]_vars

----------------------------------------------------------------------------
(* generate_response: the decoder of the streamed response *)

\* The Unicode code points of the characters of the streamed texts.
CodePoint ==
  "d" :> 100 @@ "a" :> 97 @@ "t" :> 116 @@ ":" :> 58 @@ " " :> 32 @@
  "{" :> 123 @@ "}" :> 125 @@ "\"" :> 34 @@ "1" :> 49 @@ "\n" :> 10 @@
  "\r" :> 13 @@ "<e-acute>" :> 233 @@ "<hiragana-a>" :> 12354

CharOf(cp) ==
  IF \E c \in DOMAIN CodePoint : CodePoint[c] = cp
    THEN CHOOSE c \in DOMAIN CodePoint : CodePoint[c] = cp
    ELSE "<other>"

\* The server's UTF-8 encoding of a code point below U+10000, and of a text.
utf8_encode(cp) ==
  IF cp < 128 THEN <<cp>>
  ELSE IF cp < 2048 THEN <<192 + (cp \div 64), 128 + (cp % 64)>>
  ELSE <<224 + (cp \div 4096), 128 + ((cp \div 64) % 64), 128 + (cp % 64)>>

RECURSIVE encode(_)
encode(chars) ==
  IF chars = <<>> THEN <<>>
  ELSE utf8_encode(CodePoint[Head(chars)]) \o encode(Tail(chars))

\* The JSON objects the server sends, each with the value it denotes.
FrameEmpty == [json |-> <<"{", "}">>, value |-> PyDict(<<>>)]
FrameNumber ==
  [json |-> <<"{", "\"", "a", "\"", ":", "1", "}">>,
   value |-> PyDict(<<"a">> :> PyInt(<<"1">>))]
FrameTwoBytes ==
  [json |-> <<"{", "\"", "a", "\"", ":", "\"", "<e-acute>", "\"", "}">>,
   value |-> PyDict(<<"a">> :> PyStr(<<"<e-acute>">>))]
FrameThreeBytes ==
  [json |-> <<"{", "\"", "a", "\"", ":", " ", "\"", "<hiragana-a>", "}", "\"", "}">>,
   value |-> PyDict(<<"a">> :> PyStr(<<"<hiragana-a>", "}">>))]
FramePool == {FrameEmpty, FrameNumber, FrameTwoBytes, FrameThreeBytes}

\* The blank line after a frame.
Separators == {<<"\n", "\n">>, <<"\r", "\n", "\r", "\n">>}

Frames == {[json |-> f.json, value |-> f.value, sep |-> sep] : f \in FramePool, sep \in Separators}

DataPrefix == <<"d", "a", "t", "a", ":", " ">>
frame_text(f) == DataPrefix \o f.json \o f.sep

RECURSIVE body_text(_)
body_text(frames) ==
  IF frames = <<>> THEN <<>> ELSE frame_text(Head(frames)) \o body_text(Tail(frames))

\* The longest response, in frames.
MaxFrames == 2
Responses ==
  {[frames |-> fs, content |-> encode(body_text(fs))] :
     fs \in UNION {[1..n -> Frames] : n \in 1..MaxFrames}}

\* The bytes that follow a first byte of a UTF-8 sequence; -1 for a byte
\* that cannot begin one.
utf8_following(byte) ==
  IF byte < 128 THEN 0
  ELSE IF byte >= 194 /\ byte <= 223 THEN 1
  ELSE IF byte >= 224 /\ byte <= 239 THEN 2
  ELSE IF byte >= 240 /\ byte <= 244 THEN 3
  ELSE -1

utf8_continues(byte) == byte >= 128 /\ byte <= 191

\* The code point of one whole sequence.
RECURSIVE utf8_code_point(_, _)
utf8_code_point(bytes, acc) ==
  IF bytes = <<>> THEN acc
  ELSE utf8_code_point(Tail(bytes), acc * 64 + (Head(bytes) - 128))

utf8_first_bits(byte) ==
  IF byte < 128 THEN byte
  ELSE IF byte <= 223 THEN byte - 192
  ELSE IF byte <= 239 THEN byte - 224
  ELSE byte - 240

\* The sequence of n + 1 bytes at position i is well formed.
utf8_well_formed(bytes, i, n) ==
  /\ n >= 0
  /\ i + n <= Len(bytes)
  /\ \A k \in (i + 1)..(i + n) : utf8_continues(bytes[k])
  /\ (bytes[i] = 224) => bytes[i + 1] >= 160
  /\ (bytes[i] = 237) => bytes[i + 1] <= 159
  /\ (bytes[i] = 240) => bytes[i + 1] >= 144
  /\ (bytes[i] = 244) => bytes[i + 1] <= 143

\* bytes.decode("utf-8"): ok is FALSE where Python raises UnicodeDecodeError.
RECURSIVE utf8_decode(_, _, _)
utf8_decode(bytes, i, acc) ==
  IF i > Len(bytes) THEN [ok |-> TRUE, text |-> acc]
  ELSE IF ~utf8_well_formed(bytes, i, utf8_following(bytes[i])) THEN [ok |-> FALSE]
  ELSE utf8_decode(bytes, i + utf8_following(bytes[i]) + 1,
         Append(acc, CharOf(utf8_code_point(
           SubSeq(bytes, i + 1, i + utf8_following(bytes[i])),
           utf8_first_bits(bytes[i])))))

decode(bytes) == utf8_decode(bytes, 1, <<>>)

\* What (.+)$ takes of the text after "data: ": all of it, or all but a last
\* line feed.
data_group(rest) ==
  IF rest # <<>> /\ rest[Len(rest)] = "\n" THEN SubSeq(rest, 1, Len(rest) - 1) ELSE rest

\* (.+) matches a text that is not empty and holds no line feed.
data_found(group) ==
  IF group # <<>> /\ \A k \in 1..Len(group) : group[k] # "\n"
    THEN [ok |-> TRUE, group |-> group]
    ELSE [ok |-> FALSE]

\* The match of data: (.+)$ at the start of a text.
data_match_at_start(json_fragment) ==
  IF Len(json_fragment) <= Len(DataPrefix) THEN [ok |-> FALSE]
  ELSE IF SubSeq(json_fragment, 1, Len(DataPrefix)) # DataPrefix THEN [ok |-> FALSE]
  ELSE data_found(data_group(SubSeq(json_fragment, Len(DataPrefix) + 1,
                                    Len(json_fragment))))

\* A search whose pattern is ^data: (.+)$.
data_match_without_ws(json_fragment) == data_match_at_start(json_fragment)

\* re.search(r"^[ \t\r\n]*data: (.+)$", json_fragment)
data_match(json_fragment) ==
  data_match_at_start(lstrip(json_fragment, {" ", "\t", "\r", "\n"}))

\* A call of generate_response whose request was answered with response.
stream_frame(response) ==
  [fn |-> "generate_response", response |-> response, pos |-> 0,
   byte_stream_buffer |-> <<>>, json_fragment |-> <<>>, json_buffer |-> <<>>,
   yielded |-> <<>>]

\* requests.post has returned a streamed response.
StreamInit ==
  /\ text = <<>>
  /\ typed = 0
  /\ test_pc = "input"
  /\ schema = None
  /\ chat_pc = "input"
  /\ conversation_history = <<>>
  /\ generation_config = None
  /\ stack \in {<<stream_frame(r)>> : r \in Responses}
  /\ ret = NoReturn

\* iter_content() hands over the next chunk of one byte.
HasChunk ==
  /\ stack # <<>>
  /\ Top.fn = "generate_response"
  /\ ret = NoReturn
  /\ Top.pos < Len(Top.response.content)

\* byte_stream_buffer += chunk
buffered(f) ==
  [f EXCEPT !.byte_stream_buffer = Append(@, At(f.response.content, f.pos)),
            !.pos = @ + 1]

\* json_fragment += byte_stream_buffer.decode("utf-8"); byte_stream_buffer = b""
decoded(f) ==
  [f EXCEPT !.json_fragment = @ \o decode(f.byte_stream_buffer).text,
            !.byte_stream_buffer = <<>>]

\* Neither a frame is open nor does the fragment hold the start of one.
awaits_data(f) ==
  IF f.json_buffer # <<>> THEN FALSE ELSE ~data_match(f.json_fragment).ok

\* The fragment joins the open frame, or opens one.
framed(f) ==
  [f EXCEPT !.json_buffer =
              IF @ # <<>> THEN @ \o f.json_fragment ELSE data_match(f.json_fragment).group,
            !.json_fragment = <<>>]

\* for item in parsed_data: yield item / else: yield parsed_data
yields(parsed_data) ==
  IF parsed_data.py = "list" THEN parsed_data.elems ELSE <<parsed_data>>

\* except UnicodeDecodeError: continue
HoldBytes ==
  /\ HasChunk
  /\ ~decode(buffered(Top).byte_stream_buffer).ok
  /\ stack' = [stack EXCEPT ![Len(stack)] = buffered(Top)]
  /\ UNCHANGED <<main_vars, ret>>

\* No frame is open and the search finds none: continue
AwaitData ==
  /\ HasChunk
  /\ decode(buffered(Top).byte_stream_buffer).ok
  /\ awaits_data(decoded(buffered(Top)))
  /\ stack' = [stack EXCEPT ![Len(stack)] = decoded(buffered(Top))]
  /\ UNCHANGED <<main_vars, ret>>

\* except json.JSONDecodeError: continue
AwaitJson ==
  /\ HasChunk
  /\ decode(buffered(Top).byte_stream_buffer).ok
  /\ ~awaits_data(decoded(buffered(Top)))
  /\ ~json_loads(framed(decoded(buffered(Top))).json_buffer).ok
  /\ stack' = [stack EXCEPT ![Len(stack)] = framed(decoded(buffered(Top)))]
  /\ UNCHANGED <<main_vars, ret>>

\* json.loads succeeds: json_buffer = "" and the value is yielded.
YieldData ==
  /\ HasChunk
  /\ decode(buffered(Top).byte_stream_buffer).ok
  /\ ~awaits_data(decoded(buffered(Top)))
  /\ json_loads(framed(decoded(buffered(Top))).json_buffer).ok
  /\ stack' = [stack EXCEPT ![Len(stack)] =
                 [framed(decoded(buffered(Top))) EXCEPT
                    !.json_buffer = <<>>,
                    !.yielded = @ \o yields(json_loads(
                                  framed(decoded(buffered(Top))).json_buffer).value)]]
  /\ UNCHANGED <<main_vars, ret>>

\* The response is exhausted and the generator returns.
StreamEnd ==
  /\ stack # <<>>
  /\ Top.fn = "generate_response"
  /\ ret = NoReturn
  /\ Top.pos = Len(Top.response.content)
  /\ stack' = Callers
  /\ ret' = [fn |-> "generate_response", value |-> Top.yielded]
  /\ UNCHANGED main_vars

StreamNext ==
  \/ HoldBytes
  \/ AwaitData
  \/ AwaitJson
  \/ YieldData
  \/ StreamEnd

StreamSpec == StreamInit /\ [][StreamNext]_vars

----------------------------------------------------------------------------
(* main of q_a.py and of q_a_with_grounding.py: the chat loop *)

QaCopy == "q_a.py"

UpperLetters ==
  <<"A", "B", "C", "D", "E", "F", "G", "H", "I", "J", "K", "L", "M",
    "N", "O", "P", "Q", "R", "S", "T", "U", "V", "W", "X", "Y", "Z">>
LowerLetters ==
  <<"a", "b", "c", "d", "e", "f", "g", "h", "i", "j", "k", "l", "m",
    "n", "o", "p", "q", "r", "s", "t", "u", "v", "w", "x", "y", "z">>

\* str.lower, and the same folding under re.IGNORECASE
lower_char(c) ==
  IF \E k \in 1..Len(UpperLetters) : UpperLetters[k] = c
    THEN LowerLetters[CHOOSE k \in 1..Len(UpperLetters) : UpperLetters[k] = c]
    ELSE c
lower(s) == [k \in 1..Len(s) |-> lower_char(s[k])]

\* \w
is_word_char(c) == c \in Range(LowerLetters) \cup Range(UpperLetters) \cup Digits \cup {"_"}

\* The word occurs at position i of s between two word boundaries.
word_at(s, i, word) ==
  IF i + Len(word) - 1 > Len(s) THEN FALSE
  ELSE IF lower(SubSeq(s, i, i + Len(word) - 1)) # word THEN FALSE
  ELSE IF i > 1 /\ is_word_char(s[i - 1]) THEN FALSE
  ELSE IF i + Len(word) <= Len(s) THEN ~is_word_char(s[i + Len(word)])
  ELSE TRUE

\* re.search(r'\b(?:bye|goodbye)\b', s, flags=re.IGNORECASE)
says_bye(s) ==
  \E i \in 1..Len(s) :
    \/ word_at(s, i, <<"b", "y", "e">>)
    \/ word_at(s, i, <<"g", "o", "o", "d", "b", "y", "e">>)

\* user_text.lower() in ["exit", "quit"]
ExitWords == {<<"e", "x", "i", "t">>, <<"q", "u", "i", "t">>}

is_exit(user_text) == lower(user_text) \in ExitWords

\* What except EOFError puts in user_text.
farewell(copy) ==
  IF copy = QaCopy
    THEN <<"b", "y", "e", ".">>
    ELSE <<"I", "t", "'", "s", " ", "O", "K", ",", " ", "g", "o", "o", "d", " ", "b", "y", "e", ".">>

\* What one call of input() or custom_input() does: it returns a text, or
\* the user ends the input (EOFError), or interrupts (KeyboardInterrupt).
EndOfFile == [event |-> "EOFError"]
Interrupt == [event |-> "KeyboardInterrupt"]
Typed(t) == [event |-> "text", text |-> t]

UserHi == <<"h", "i">>
UserExit == <<"e", "x", "i", "t">>
UserQuit == <<"Q", "u", "i", "t">>
UserBye == <<"b", "y", "e">>
UserTexts == {UserHi, UserExit, UserQuit, UserBye}

\* The calls of one get_user_input: empty texts, then one that ends it.
LastEvents == {Typed(t) : t \in UserTexts} \cup {EndOfFile, Interrupt}
InputRuns == {<<e>> : e \in LastEvents} \cup {<<Typed(<<>>), e>> : e \in LastEvents}

\* custom_input of q_a_with_grounding.py raises EOFError from a
\* KeyboardInterrupt; input() of q_a.py lets it through.
raises_eof(copy, event) ==
  IF event = EndOfFile THEN TRUE
  ELSE IF event = Interrupt THEN copy = ChatCopy
  ELSE FALSE

\* get_user_input: the loop ends with the first text that is not empty;
\* Raised stands for the KeyboardInterrupt that leaves q_a.py.
RECURSIVE get_user_input(_, _)
get_user_input(copy, run) ==
  IF raises_eof(copy, Head(run)) THEN farewell(copy)
  ELSE IF Head(run) = Interrupt THEN Raised
  ELSE IF Head(run).text # <<>> THEN Head(run).text
  ELSE get_user_input(copy, Tail(run))

\* The except branch of get_user_input was taken for the text it returned.
RECURSIVE ended_by_eof(_, _)
ended_by_eof(copy, run) ==
  IF raises_eof(copy, Head(run)) THEN TRUE
  ELSE IF Head(run) = Interrupt THEN FALSE
  ELSE IF Head(run).text # <<>> THEN FALSE
  ELSE ended_by_eof(copy, Tail(run))

\* The texts the model answers with.
ReplyOk == <<"o", "k">>
ReplyGoodbye == <<"G", "o", "o", "d", "b", "y", "e", "!">>
ReplyByebye == <<"b", "y", "e", "b", "y", "e">>
ReplyLine == <<"o", "k", "\n">>
ModelReplies == {ReplyOk, ReplyGoodbye, ReplyByebye, ReplyLine, <<>>}

\* The most user records of a conversation.
MaxTurns == 3

\* main has begun: conversation_history = [].
main_frame(copy) ==
  [fn |-> "main", copy |-> copy, user_text |-> <<>>, eof |-> FALSE,
   model_record |-> None, request_body |-> None]

ChatInit ==
  /\ text = <<>>
  /\ typed = 0
  /\ test_pc = "input"
  /\ schema = None
  /\ chat_pc = "input"
  /\ conversation_history = <<>>
  /\ generation_config = None
  /\ stack \in {<<main_frame(copy)>> : copy \in {QaCopy, ChatCopy}}
  /\ ret = NoReturn

InMain(pc) == stack # <<>> /\ Top.fn = "main" /\ chat_pc = pc

\* The head of the loop up to the first break: the user record is appended
\* whatever the text is.
UserTurn(user_text, eof) ==
  IF user_text = Raised
    THEN /\ chat_pc' = "crashed"
         /\ UNCHANGED <<conversation_history, stack>>
    ELSE /\ conversation_history' =
              Append(conversation_history,
                     [role |-> "user", parts |-> <<[text |-> user_text]>>])
         /\ stack' = [stack EXCEPT ![Len(stack)].user_text = user_text,
                                   ![Len(stack)].eof = eof]
         /\ chat_pc' = IF is_exit(user_text) THEN "ended" ELSE "model"

GetUserInput(run) ==
  /\ InMain("input")
  /\ Len(conversation_history) < MaxTurns
  /\ UserTurn(get_user_input(Top.copy, run), ended_by_eof(Top.copy, run))
  /\ UNCHANGED <<text, typed, test_pc, schema, generation_config, ret>>

\* get_model_response of q_a_with_grounding.py before its request: the
\* configuration and the attachments of the last record.
Requested(config) ==
  IF config = Raised
    THEN /\ chat_pc' = "crashed"
         /\ UNCHANGED <<conversation_history, generation_config, stack>>
    ELSE /\ generation_config' = config
         /\ conversation_history' =
              [conversation_history EXCEPT ![Len(conversation_history)].parts =
                 with_attachments(@)]
         /\ stack' = [stack EXCEPT
              ![Len(stack)].model_record = [role |-> "model", parts |-> <<>>],
              ![Len(stack)].request_body =
                 [contents |-> conversation_history', generationConfig |-> config]]
         /\ chat_pc' = "streaming"

\* model_record = {...}; get_model_response calls generate_response, whose
\* request_body holds the conversation_history.
CallModel ==
  /\ InMain("model")
  /\ IF Top.copy = ChatCopy
       THEN Requested(generation_config_of(conversation_history))
       ELSE /\ stack' = [stack EXCEPT
                 ![Len(stack)].model_record = [role |-> "model", parts |-> <<>>],
                 ![Len(stack)].request_body =
                    [contents |-> conversation_history, generationConfig |-> None]]
            /\ chat_pc' = "streaming"
            /\ UNCHANGED <<conversation_history, generation_config>>
  /\ UNCHANGED <<text, typed, test_pc, schema, ret>>

\* return response_text (q_a.py) / return response_text.rstrip()
model_text_of(copy, response_text) ==
  IF copy = ChatCopy THEN rstrip(response_text, WhitespaceChars) ELSE response_text

\* The tests after the exchange: q_a_with_grounding.py also searches the
\* user's text.
leaves_loop(copy, user_text, model_text) ==
  IF says_bye(model_text) THEN TRUE
  ELSE IF copy = ChatCopy THEN says_bye(user_text)
  ELSE FALSE

\* get_model_response returns; the reply goes into model_record and the
\* loop ends or goes on.
ModelReply(response_text) ==
  /\ InMain("streaming")
  /\ stack' = [stack EXCEPT ![Len(stack)].model_record.parts =
                 Append(@, [text |-> model_text_of(Top.copy, response_text)])]
  /\ chat_pc' = IF leaves_loop(Top.copy, Top.user_text,
                               model_text_of(Top.copy, response_text))
                  THEN "ended"
                  ELSE "input"
  /\ UNCHANGED <<text, typed, test_pc, schema, conversation_history,
                 generation_config, ret>>

ChatNext ==
  \/ \E run \in InputRuns : GetUserInput(run)
  \/ CallModel
  \/ \E response_text \in ModelReplies : ModelReply(response_text)

ChatSpec == ChatInit /\ [][ChatNext]_vars

----------------------------------------------------------------------------
(* The format as spec.md describes it, written independently of the        *)
(* parser: the properties below compare the parser's results with these.   *)

RefMarker == <<":", ":", ":", ":">>
RefBlankChars == {" ", "\t"}
RefQuoteChars == {"'", "\""}

\* Some line of t is "::::" once trimmed, read character by character.
HasMarkerLine(t) ==
  \E i \in 1..(Len(t) - 3) :
    /\ SubSeq(t, i, i + 3) = RefMarker
    /\ \E a \in 1..i :
         /\ (a = 1 \/ t[a - 1] = "\n")
         /\ \A j \in a..(i - 1) : t[j] \in RefBlankChars
    /\ \E b \in (i + 3)..Len(t) :
         /\ (b = Len(t) \/ t[b + 1] = "\n")
         /\ \A j \in (i + 4)..b : t[j] \in RefBlankChars

\* A document: {"type": "object", "properties": <mapping of nodes>}.
IsDocument(d) ==
  /\ DOMAIN d = {"type", "properties"}
  /\ d.type = "object"
  /\ \A k \in DOMAIN d.properties : "type" \in DOMAIN d.properties[k]

RefIsMarkerLine(l) == strip(l) = RefMarker
RefIsBlankLine(l) == \A i \in 1..Len(l) : l[i] \in RefBlankChars

\* 1-based position of the first marker line, 0 when there is none.
RefFirstMarker(ls) ==
  IF \E i \in 1..Len(ls) : RefIsMarkerLine(ls[i])
    THEN CHOOSE i \in 1..Len(ls) :
           /\ RefIsMarkerLine(ls[i])
           /\ \A j \in 1..(i - 1) : ~RefIsMarkerLine(ls[j])
    ELSE 0

RefTrimRight(l) ==
  IF RefIsBlankLine(l) THEN <<>>
  ELSE SubSeq(l, 1, CHOOSE e \in 1..Len(l) :
                      /\ l[e] \notin RefBlankChars
                      /\ \A j \in (e + 1)..Len(l) : l[j] \in RefBlankChars)

RefTrimLeft(l) ==
  IF RefIsBlankLine(l) THEN <<>>
  ELSE SubSeq(l, CHOOSE b \in 1..Len(l) :
                   /\ l[b] \notin RefBlankChars
                   /\ \A j \in 1..(b - 1) : l[j] \in RefBlankChars, Len(l))

RefTrim(l) == RefTrimLeft(RefTrimRight(l))

\* The schema body: the lines after the first marker line, whitespace-only
\* lines left out, the others trimmed on the right.
RefBodyOf(ls) ==
  LET after == SubSeq(ls, RefFirstMarker(ls) + 1, Len(ls))
      kept == SelectSeq(after, LAMBDA l : ~RefIsBlankLine(l))
  IN [i \in 1..Len(kept) |-> RefTrimRight(kept[i])]

RefBody(t) == IF HasMarkerLine(t) THEN RefBodyOf(splitlines(t)) ELSE <<>>

\* The number of leading spaces of a line.
RefIndent(l) ==
  IF \A i \in 1..Len(l) : l[i] = " " THEN Len(l)
  ELSE (CHOOSE b \in 1..Len(l) :
          l[b] # " " /\ \A j \in 1..(b - 1) : l[j] = " ") - 1

RefIsBullet(l) == RefTrimLeft(l) # <<>> /\ RefTrimLeft(l)[1] = "-"
RefHasColon(l) == \E i \in 1..Len(l) : l[i] = ":"
RefFirstColon(l) ==
  CHOOSE i \in 1..Len(l) : l[i] = ":" /\ \A j \in 1..(i - 1) : l[j] # ":"

RefStripQuotes(k) ==
  IF Len(k) >= 2 /\ k[1] \in RefQuoteChars /\ k[Len(k)] = k[1]
    THEN SubSeq(k, 2, Len(k) - 1)
    ELSE k

\* The key of a property line, and the text after its first colon.
RefKey(l) == RefStripQuotes(RefTrim(SubSeq(l, 1, RefFirstColon(l) - 1)))
RefRest(l) == RefTrim(SubSeq(l, RefFirstColon(l) + 1, Len(l)))
RefBracketed(r) == Len(r) >= 1 /\ r[1] = "[" /\ r[Len(r)] = "]"

\* Line i of the body is a property line of the top-level block: no bullet
\* line comes before it, so the top-level walk reaches it.
TopLevel(body, i) ==
  /\ ~RefIsBullet(body[i])
  /\ RefHasColon(body[i])
  /\ \A j \in 1..(i - 1) : ~RefIsBullet(body[j])

\* No later line of the body writes the key of line i again.
LastOfKey(body, i) ==
  \A j \in (i + 1)..Len(body) :
    RefHasColon(body[j]) => RefKey(body[j]) # RefKey(body[i])

\* A bullet line without its "-" and the whitespace around it.
RefBulletContent(l) == RefTrimLeft(Tail(RefTrimLeft(l)))
RefAsProperty(l) == IF RefIsBullet(l) THEN RefBulletContent(l) ELSE l

----------------------------------------------------------------------------
(* The properties *)

\* C1: the extractor returns None exactly when no line of the text trims to
\* "::::"; when some line does, it returns a document whose "type" is
\* "object" and whose "properties" is a mapping of nodes.  Both copies.
C1_AbsentOrDocument ==
  /\ test_pc # "input" =>
       IF HasMarkerLine(text) THEN IsDocument(schema) ELSE schema = None
  /\ chat_pc # "input" =>
       IF HasMarkerLine(text)
         THEN IsDocument(extract_response_schema(ChatCopy, text))
         ELSE extract_response_schema(ChatCopy, text) = None

\* C1 happens: a marker line written with spaces around it, after a line of
\* prose, has been read and a document with properties was printed.
C1_Witness ==
  /\ test_pc = "printed"
  /\ chat_pc = "requested"
  /\ Len(text) > Len(OpeningPrefixed)
  /\ SubSeq(text, 1, Len(OpeningPrefixed)) = OpeningPrefixed
  /\ IsDocument(schema)
  /\ schema.properties # <<>>

\* The first text part of the user's record in the history.
PromptOf(history) == history[Len(history)].parts[1].text

\* C10: get_model_response asks for structured output, with
\* generation_config = {responseMimeType: "application/json", responseSchema:
\* the document}, exactly when the prompt's text part has a marker line, and
\* leaves generation_config None otherwise.
C10_StructuredOutput ==
  /\ chat_pc # "crashed"
  /\ chat_pc = "requested" =>
       IF HasMarkerLine(PromptOf(conversation_history))
         THEN /\ DOMAIN generation_config = {"responseMimeType", "responseSchema"}
              /\ generation_config.responseMimeType = "application/json"
              /\ IsDocument(generation_config.responseSchema)
              /\ generation_config.responseSchema =
                   extract_response_schema(ChatCopy, PromptOf(conversation_history))
         ELSE generation_config = None

\* C10 happens: a request went out for a prompt that is a marker line and
\* nothing else, with a document that has no properties.
C10_Witness ==
  /\ chat_pc = "requested"
  /\ HasMarkerLine(text)
  /\ generation_config # None
  /\ generation_config.responseSchema.properties = <<>>

\* The elements of a bracketed list as written: the text between the
\* brackets, cut at its commas.
RECURSIVE RefCommaPieces(_)
RefCommaPieces(s) ==
  IF \A i \in 1..Len(s) : s[i] # ","
    THEN <<RefTrim(s)>>
    ELSE LET c == CHOOSE i \in 1..Len(s) : s[i] = "," /\ \A j \in 1..(i - 1) : s[j] # ","
         IN <<RefTrim(SubSeq(s, 1, c - 1))>> \o RefCommaPieces(SubSeq(s, c + 1, Len(s)))

RefElements(r) == RefCommaPieces(SubSeq(r, 2, Len(r) - 1))

\* An element is bare, single-quoted or double-quoted.
RefIsBare(e) == e # <<>> /\ \A i \in 1..Len(e) : e[i] \notin RefQuoteChars \cup {"\\", "[", "]"}
RefIsQuoted(e) ==
  /\ Len(e) >= 2
  /\ e[1] \in RefQuoteChars
  /\ e[Len(e)] = e[1]
  /\ \A i \in 2..(Len(e) - 1) : e[i] \notin RefQuoteChars \cup {"\\"}

RefWellFormedList(r) ==
  /\ RefBracketed(r)
  /\ Len(r) >= 2
  /\ \A k \in 1..Len(RefElements(r)) :
       RefIsBare(RefElements(r)[k]) \/ RefIsQuoted(RefElements(r)[k])

\* The list of the elements as text, quotes removed, in input order.
RefEnum(r) ==
  [k \in 1..Len(RefElements(r)) |-> PyStr(RefStripQuotes(RefElements(r)[k]))]

\* C2: every property line "key: [a, b, c]" with a well-formed list is
\* recorded as a string leaf whose enum is exactly the list of the elements,
\* in input order, with quotes removed, whether the elements are bare,
\* single-quoted or double-quoted.
C2_EnumAsWritten ==
  test_pc = "printed" =>
    \A i \in 1..Len(RefBody(text)) :
      ( /\ TopLevel(RefBody(text), i)
        /\ LastOfKey(RefBody(text), i)
        /\ RefWellFormedList(RefRest(RefBody(text)[i])) )
      => /\ RefKey(RefBody(text)[i]) \in DOMAIN schema.properties
         /\ schema.properties[RefKey(RefBody(text)[i])] =
              [type |-> "string", enum |-> RefEnum(RefRest(RefBody(text)[i]))]

\* A node has one of the five shapes; an enum holds text only.
RECURSIVE IsNode(_)
IsNode(n) ==
  \/ n = [type |-> "string"]
  \/ /\ DOMAIN n = {"type", "description"}
     /\ n.type = "string"
     /\ DOMAIN n.description = 1..Len(n.description)
  \/ /\ DOMAIN n = {"type", "enum"}
     /\ n.type = "string"
     /\ \A k \in 1..Len(n.enum) : n.enum[k].py = "str"
  \/ /\ DOMAIN n = {"type", "properties"}
     /\ n.type = "object"
     /\ \A k \in DOMAIN n.properties : IsNode(n.properties[k])
  \/ /\ DOMAIN n = {"type", "items"}
     /\ n.type = "array"
     /\ IsNode(n.items)

\* C3: every node of the document has exactly one of the five shapes: plain
\* string, described string, string with an enum of text elements, object
\* with properties, array with items; the items of an array are a node.
C3_FiveShapes == test_pc = "printed" => IsNode(schema)

\* C8: a property line whose key is written in quotes is recorded under the
\* key without the quotes by test_respsml.py and by q_a_with_grounding.py
\* alike, so both programs get the same mapping from the same text.
C8_SameMappingBothCopies ==
  (test_pc = "printed" /\ chat_pc = "requested") =>
    /\ generation_config.responseSchema.properties = schema.properties
    /\ \A i \in 1..Len(RefBody(text)) :
         (TopLevel(RefBody(text), i) /\ LastOfKey(RefBody(text), i))
         => /\ RefKey(RefBody(text)[i]) \in DOMAIN schema.properties
            /\ RefKey(RefBody(text)[i]) \in
                 DOMAIN generation_config.responseSchema.properties

\* The properties a line gives when it is the only line of a block, as the
\* content of a bullet or a continuation line is for the nested walk.
AloneProperties(l) == parse_properties(TestCopy, <<l>>, 0, 0).properties

\* C4: a property line "key: text", whose remainder is not empty and is not
\* a bracketed list, is recorded as a string leaf whose description is
\* everything after the first colon, trimmed; later colons are part of it.
C4_Description ==
  test_pc = "printed" =>
    /\ \A i \in 1..Len(RefBody(text)) :
         ( /\ TopLevel(RefBody(text), i)
           /\ LastOfKey(RefBody(text), i)
           /\ RefRest(RefBody(text)[i]) # <<>>
           /\ ~RefBracketed(RefRest(RefBody(text)[i])) )
         => /\ RefKey(RefBody(text)[i]) \in DOMAIN schema.properties
            /\ schema.properties[RefKey(RefBody(text)[i])] =
                 [type |-> "string", description |-> RefRest(RefBody(text)[i])]
    /\ \A i \in 1..Len(RefBody(text)) :
         ( /\ RefHasColon(RefAsProperty(RefBody(text)[i]))
           /\ ~RefIsBullet(RefAsProperty(RefBody(text)[i]))
           /\ RefRest(RefAsProperty(RefBody(text)[i])) # <<>>
           /\ ~RefBracketed(RefRest(RefAsProperty(RefBody(text)[i]))) )
         => AloneProperties(RefAsProperty(RefBody(text)[i])) =
              ( RefKey(RefAsProperty(RefBody(text)[i])) :>
                  [type |-> "string",
                   description |-> RefRest(RefAsProperty(RefBody(text)[i]))] )

\* C4 happens: the line "a": y: z, with a colon inside its text, was read
\* as a top-level property line and the document printed.
C4_Witness ==
  /\ test_pc = "printed"
  /\ \E i \in 1..Len(RefBody(text)) :
       /\ RefBody(text)[i] = LineQuotedKey
       /\ TopLevel(RefBody(text), i)
       /\ LastOfKey(RefBody(text), i)
  /\ <<"a">> \in DOMAIN schema.properties
  /\ schema.properties[<<"a">>].description = <<"y", ":", " ", "z">>

\* A key line followed to the end of the body by one array block whose
\* bullets all stand at the indent of the first one.
ArrayShape(body) ==
  /\ Len(body) >= 2
  /\ ~RefIsBullet(body[1])
  /\ RefHasColon(body[1])
  /\ RefRest(body[1]) = <<>>
  /\ RefIsBullet(body[2])
  /\ RefIndent(body[2]) > RefIndent(body[1])
  /\ \A j \in 3..Len(body) :
       \/ RefIndent(body[j]) > RefIndent(body[2])
       \/ RefIndent(body[j]) = RefIndent(body[2]) /\ RefIsBullet(body[j])

\* The lines where the items of the block begin, and the lines of an item.
ItemStarts(body) == {j \in 2..Len(body) : RefIndent(body[j]) = RefIndent(body[2])}
ItemEnd(body, j) ==
  IF \E n \in ItemStarts(body) : n > j
    THEN (CHOOSE n \in ItemStarts(body) :
            n > j /\ \A m \in ItemStarts(body) : m > j => n <= m) - 1
    ELSE Len(body)
ItemLines(body, j) == SubSeq(body, j, ItemEnd(body, j))
ItemIsObject(body, j) == \E n \in j..ItemEnd(body, j) : RefHasColon(body[n])

\* What the array under the key holds when the item at j is its only item.
ItemAlone(body, j) ==
  extract_response_schema(
    TestCopy, join(<<"\n">>, <<RefMarker, body[1]>> \o ItemLines(body, j))
  ).properties[RefKey(body[1])]

\* The items at or after j that write key k.
WritersOf(body, k) ==
  {j \in ItemStarts(body) : k \in DOMAIN ItemAlone(body, j).items.properties}
LastWriterOf(body, k) ==
  CHOOSE j \in WritersOf(body, k) : \A n \in WritersOf(body, k) : n <= j

\* C5: when all the bullet items of a block are objects, the array's items
\* are one object whose properties are the union of the items' properties;
\* for a key written by several items the last item's value stands, and no
\* key of any item is lost.
C5_MergeLaw ==
  ( /\ test_pc = "printed"
    /\ ArrayShape(RefBody(text))
    /\ \A j \in ItemStarts(RefBody(text)) : ItemIsObject(RefBody(text), j) )
  => /\ RefKey(RefBody(text)[1]) \in DOMAIN schema.properties
     /\ DOMAIN schema.properties[RefKey(RefBody(text)[1])] = {"type", "items"}
     /\ schema.properties[RefKey(RefBody(text)[1])].type = "array"
     /\ DOMAIN schema.properties[RefKey(RefBody(text)[1])].items = {"type", "properties"}
     /\ schema.properties[RefKey(RefBody(text)[1])].items.type = "object"
     /\ DOMAIN schema.properties[RefKey(RefBody(text)[1])].items.properties =
          UNION { DOMAIN ItemAlone(RefBody(text), j).items.properties :
                    j \in ItemStarts(RefBody(text)) }
     /\ \A k \in DOMAIN schema.properties[RefKey(RefBody(text)[1])].items.properties :
          schema.properties[RefKey(RefBody(text)[1])].items.properties[k] =
            ItemAlone(RefBody(text), LastWriterOf(RefBody(text), k)).items.properties[k]

\* C5 happens: two bullet items both write key a, with different values, and
\* the merged object holds the value of the second.
C5_Witness ==
  /\ test_pc = "printed"
  /\ RefBody(text) = <<LineKeyOnly, LineBulletA, LineBulletJson>>
  /\ "enum" \in DOMAIN schema.properties[<<"k">>].items.properties[<<"a">>]

\* A key line followed by bullets at one indent, each "- key: value" with
\* the value on the bullet's own line: the sibling-bullet form of one object.
SiblingShape(body) ==
  /\ Len(body) >= 3
  /\ ~RefIsBullet(body[1])
  /\ RefHasColon(body[1])
  /\ RefRest(body[1]) = <<>>
  /\ RefIndent(body[2]) > RefIndent(body[1])
  /\ \A j \in 2..Len(body) :
       /\ RefIsBullet(body[j])
       /\ RefIndent(body[j]) = RefIndent(body[2])
       /\ RefHasColon(RefBulletContent(body[j]))
       /\ ~RefIsBullet(RefBulletContent(body[j]))
       /\ RefRest(RefBulletContent(body[j])) # <<>>

\* The same fields in the continuation form: the first bullet is kept, the
\* "-" of every later bullet gives way to a space.
ContinuationForm(body) ==
  [j \in 1..Len(body) |->
     IF j <= 2 THEN body[j]
     ELSE [body[j] EXCEPT ![RefIndent(body[j]) + 1] = " "]]

\* C6: an object of n fields written as n sibling bullets gives the same
\* document as the same fields written as one bullet followed by deeper
\* continuation lines.
C6_SiblingEqualsContinuation ==
  (test_pc = "printed" /\ SiblingShape(RefBody(text)))
  => schema = extract_response_schema(
                TestCopy,
                join(<<"\n">>, <<RefMarker>> \o ContinuationForm(RefBody(text))))

\* C6 happens: fields a and b were written as two sibling bullets and the
\* array's object holds both.
C6_Witness ==
  /\ test_pc = "printed"
  /\ RefBody(text) = <<LineKeyOnly, LineBulletA, LineBulletEnum>>
  /\ DOMAIN schema.properties[<<"k">>].items.properties = {<<"a">>, <<"b">>}

\* The bracketed remainders in the body that strict JSON rejects.
LenientRemainders(body) ==
  { RefRest(RefAsProperty(body[i])) : i \in
      { n \in 1..Len(body) :
          /\ RefHasColon(RefAsProperty(body[n]))
          /\ RefBracketed(RefRest(RefAsProperty(body[n])))
          /\ ~json_loads(RefRest(RefAsProperty(body[n]))).ok } }

FromMarker(t) ==
  join(<<"\n">>, SubSeq(splitlines(t), RefFirstMarker(splitlines(t)), Len(splitlines(t))))

\* The text without the whitespace-only lines after its first marker line.
WithoutBlankLines(t) ==
  join(<<"\n">>,
       SubSeq(splitlines(t), 1, RefFirstMarker(splitlines(t)))
         \o SelectSeq(SubSeq(splitlines(t), RefFirstMarker(splitlines(t)) + 1,
                             Len(splitlines(t))),
                      LAMBDA l : ~RefIsBlankLine(l)))

\* C9: the document depends only on the lines after the first marker line:
\* the text without what precedes that line gives the same document, and so
\* does the text without its whitespace-only lines.
C9_OnlyLinesAfterMarker ==
  (test_pc # "input" /\ HasMarkerLine(text))
  => /\ schema = extract_response_schema(TestCopy, FromMarker(text))
     /\ schema = extract_response_schema(TestCopy, WithoutBlankLines(text))
     /\ schema = [type |-> "object",
                  properties |-> parse_properties(TestCopy, RefBody(text), 0, 0).properties]

\* C9 happens: a line of prose precedes the marker line and a
\* whitespace-only line stands between a key and its bullet; the key was
\* read as an array all the same.
C9_Witness ==
  /\ test_pc = "printed"
  /\ text = OpeningPrefixed \o <<"\n">> \o LineKeyOnly \o <<"\n">> \o LineBlank
              \o <<"\n">> \o LineBulletA
  /\ DOMAIN schema.properties = {<<"k">>}
  /\ schema.properties[<<"k">>].type = "array"

\* An item a bullet gave is an object node, or the bullet's text.
RefIsObject(item) == DOMAIN item = {"type", "properties"} /\ item.type = "object"

\* The union of the items' properties, the last item that has a key giving
\* its value.
RefMerged(items) ==
  [k \in UNION {DOMAIN items[i].properties : i \in 1..Len(items)} |->
     items[CHOOSE i \in 1..Len(items) :
             /\ k \in DOMAIN items[i].properties
             /\ \A j \in (i + 1)..Len(items) : k \notin DOMAIN items[j].properties
          ].properties[k]]

RefArrayOf(items) ==
  IF items # <<>> /\ \A i \in 1..Len(items) : RefIsObject(items[i])
    THEN [type |-> "array", items |-> [type |-> "object", properties |-> RefMerged(items)]]
    ELSE [type |-> "array", items |-> [type |-> "string"]]

\* parse_array_block returns in this step.
ArrayReturns == stack # <<>> /\ Top.fn = "parse_array_block" /\ stack' = Callers

\* C11: parse_array_block returns {type: array, items: merged object} when it
\* collected at least one item and every item is an object; when an item is
\* a plain string, or no item was collected (the block starts at the end of
\* the lines or at a line that is not a bullet), it returns exactly
\* {type: array, items: {type: string}}.
C11_ArrayResult ==
  /\ [][ArrayReturns =>
          /\ ret'.fn = "parse_array_block"
          /\ ret'.definition =
               RefArrayOf(IF Top.pc = "entry" THEN <<>> ELSE Top.items)]_vars
  /\ [](stack # <<>> =>
          \A start \in 0..Len(stack[1].lines) :
            (start = Len(stack[1].lines) \/ ~RefIsBullet(stack[1].lines[start + 1]))
            => parse_array_block(TestCopy, stack[1].lines, start, 0) =
                 [definition |-> RefArrayOf(<<>>), new_index |-> start, raised |-> FALSE])

\* C11 happens: the block under k has an object item (a: x) and a text item
\* (x), and parse_array_block has returned the array of plain strings.
C11_Witness ==
  /\ test_pc = "walking"
  /\ ret.fn = "parse_array_block"
  /\ ret.definition = [type |-> "array", items |-> [type |-> "string"]]
  /\ Top.lines = <<LineKeyOnly, LineBulletA, LineBulletText>>

\* parse_bullet_item returns in this step; the frame under it is the
\* parse_array_block that called it at its idx.
BulletReturns == stack # <<>> /\ Top.fn = "parse_bullet_item" /\ stack' = Callers
BulletCalledAt == stack[Len(stack) - 1].idx

\* The lines of the list from index i up to, not including, index j.
RefSlice(lines, i, j) == SubSeq(lines, i + 1, j)

\* The bullet's block: its own content, then its continuation lines as
\* they stand in the list.
RefBlock(lines, i, j) ==
  <<RefBulletContent(lines[i + 1])>> \o RefSlice(lines, i + 1, j)

\* The block on its own: the continuation lines lose the bullet's indent.
RefBlockAlone(lines, i, j, b) ==
  [k \in 1..(j - i) |->
     IF k = 1 THEN RefBulletContent(lines[i + 1])
     ELSE SubSeq(lines[i + k], b + 1, Len(lines[i + k]))]

RECURSIVE RefJoinSpaces(_)
RefJoinSpaces(parts) ==
  IF Len(parts) = 0 THEN <<>>
  ELSE IF Len(parts) = 1 THEN parts[1]
  ELSE parts[1] \o <<" ">> \o RefJoinSpaces(Tail(parts))

RefBlockText(block) == RefJoinSpaces([k \in 1..Len(block) |-> RefTrim(block[k])])

\* C12: parse_bullet_item returns an object node exactly when a line of the
\* bullet's content and continuation block has a colon; the object is
\* {type: object, properties: P} with P what parse_properties gives at base
\* indent 0 on that block alone; otherwise it returns the content and the
\* trimmed continuation lines joined by single spaces.
C12_BulletClassification ==
  [][BulletReturns =>
       /\ ret'.fn = "parse_bullet_item"
       /\ IF \E k \in 1..Len(RefBlock(Top.lines, BulletCalledAt, ret'.idx)) :
               RefHasColon(RefBlock(Top.lines, BulletCalledAt, ret'.idx)[k])
            THEN ret'.value =
                   [type |-> "object",
                    properties |->
                      parse_properties(TestCopy,
                        RefBlockAlone(Top.lines, BulletCalledAt, ret'.idx, Top.bullet_indent),
                        0, 0).properties]
            ELSE ret'.value =
                   PyStr(RefBlockText(RefBlock(Top.lines, BulletCalledAt, ret'.idx)))]_vars

\* C12 happens: the bullet "- x" with the continuation line "  - b: y" was
\* returned as an object without properties.
C12_Witness ==
  /\ test_pc = "walking"
  /\ ret.fn = "parse_bullet_item"
  /\ ret.value = [type |-> "object", properties |-> <<>>]
  /\ Top.lines = <<LineKeyOnly, LineBulletText, LineBulletDeep>>

\* A frame is pushed in this step; the value in flight is taken by the
\* caller in this step.
Calls(fn) == Len(stack') = Len(stack) + 1 /\ stack'[Len(stack')].fn = fn
Takes(fn) == stack # <<>> /\ ret.fn = fn /\ Len(stack') = Len(stack)

\* C13: parse_bullet_item called at index i with bullet indent b returns an
\* index j > i; the lines i+1..j-1 all have an indent greater than b and
\* are the bullet's continuation lines, none left out; line j, if there is
\* one, has an indent of at most b; and the next bullet item starts at j, so
\* no line belongs to two items.
C13_BulletConsumption ==
  /\ [][BulletReturns =>
          /\ ret'.idx > BulletCalledAt
          /\ ret'.idx <= Len(Top.lines)
          /\ \A n \in (BulletCalledAt + 1)..(ret'.idx - 1) :
               RefIndent(Top.lines[n + 1]) > Top.bullet_indent
          /\ ret'.idx < Len(Top.lines) =>
               RefIndent(Top.lines[ret'.idx + 1]) <= Top.bullet_indent
          /\ Len(Top.bullet_lines) = ret'.idx - BulletCalledAt
          /\ \A k \in 2..Len(Top.bullet_lines) :
               Top.bullet_lines[k] = Top.lines[BulletCalledAt + k]]_vars
  /\ [][Takes("parse_bullet_item") => stack'[Len(stack')].idx = ret.idx]_vars
  /\ [][Calls("parse_bullet_item") =>
          /\ Top.fn = "parse_array_block"
          /\ stack'[Len(stack')].idx = Top.idx
          /\ stack'[Len(stack')].lines = Top.lines]_vars

\* C13 happens: the bullet at index 1 took its continuation line at index 2
\* and returned index 3, where a sibling bullet stands.
C13_Witness ==
  /\ test_pc = "walking"
  /\ ret.fn = "parse_bullet_item"
  /\ ret.idx = 3
  /\ Top.fn = "parse_array_block"
  /\ Top.idx = 1
  /\ Top.lines = <<LineKeyOnly, LineBulletA, LineContinuation, LineBulletEnum>>

\* The line index of a frame's loop.
FrameIndex(f) == IF f.fn = "parse_properties" THEN f.line_index ELSE f.idx

\* A step of the running call itself: a loop iteration, or the resumption
\* after a call it made.
Iterates == stack # <<>> /\ Len(stack') = Len(stack) /\ Top.pc # "entry"

\* A bound on the steps a call still takes, by the number k of lines from
\* its index to the end of its list: StepsOfProperties for parse_properties
\* in its loop, StepsOfArray for parse_array_block in its loop.
RECURSIVE StepsOfProperties(_), StepsOfArray(_)
StepsOfProperties(k) ==
  IF k = 0 THEN 2 ELSE StepsOfProperties(k - 1) + StepsOfArray(k - 1) + 2
StepsOfArray(k) ==
  IF k = 0 THEN 2 ELSE StepsOfArray(k - 1) + StepsOfProperties(k) + k + 3

StepsOfFrame(f) ==
  IF f.fn = "parse_properties"
    THEN IF f.pc = "loop"
           THEN StepsOfProperties(Len(f.lines) - f.line_index)
           ELSE StepsOfProperties(Len(f.lines) - f.line_index - 1)
  ELSE IF f.fn = "parse_array_block"
    THEN IF f.pc = "entry" THEN StepsOfArray(Len(f.lines) - f.idx) + 1
         ELSE IF f.pc = "loop" THEN StepsOfArray(Len(f.lines) - f.idx)
         ELSE StepsOfArray(Len(f.lines) - f.idx - 1)
  ELSE IF f.pc = "entry"
         THEN StepsOfProperties(Len(f.lines) - f.idx) + (Len(f.lines) - f.idx) + 2
       ELSE IF f.pc = "collect"
         THEN StepsOfProperties(Len(f.bullet_lines) + Len(f.lines) - f.idx)
                + (Len(f.lines) - f.idx) + 2
       ELSE 1

RECURSIVE StepsOfStack(_)
StepsOfStack(frames) ==
  IF frames = <<>> THEN 0
  ELSE StepsOfFrame(frames[1]) + StepsOfStack(Tail(frames))

\* The variant of the walk: it falls with every step and is never negative.
StepsLeft(frames, value) == StepsOfStack(frames) + (IF value = NoReturn THEN 0 ELSE 1)

\* C14: the compiler terminates on every input: every loop iteration of
\* parse_properties, parse_array_block and parse_bullet_item moves its line
\* index forward by at least one and never past the end of the lines (after
\* an array delegation the index is beyond the key line), every
\* parse_properties called from parse_bullet_item gets a list strictly
\* shorter than the enclosing call's, and every step of a compilation that
\* has begun lowers a natural number, so the compilation ends.
C14_Terminates ==
  /\ [][Iterates =>
          /\ stack'[Len(stack')].fn = Top.fn
          /\ FrameIndex(stack'[Len(stack')]) >= FrameIndex(Top) + 1
          /\ FrameIndex(stack'[Len(stack')]) <= Len(Top.lines)]_vars
  /\ [][(stack # <<>> /\ Calls("parse_properties")) =>
          /\ Top.fn = "parse_bullet_item"
          /\ stack[Len(stack) - 2].fn = "parse_properties"
          /\ Len(stack'[Len(stack')].lines) < Len(stack[Len(stack) - 2].lines)]_vars
  /\ [][WalkStep =>
          /\ StepsLeft(stack', ret') < StepsLeft(stack, ret)
          /\ StepsLeft(stack', ret') >= 0]_vars

\* C14 happens: a parse_properties within a bullet within an array within a
\* bullet has run on a list of one line, and the document was printed.
C14_Witness ==
  /\ test_pc = "printed"
  /\ text = OpeningArray \o <<"\n">> \o LineBulletKey \o <<"\n">> \o LineBulletDeep
  /\ schema.properties[<<"k">>].items.properties[<<"k">>].items.properties
       = (<<"b">> :> [type |-> "string", description |-> <<"y">>])

\* parse_properties is at the head of its loop; the line it is at.
AtLoopHead == stack # <<>> /\ Top.fn = "parse_properties" /\ Top.pc = "loop" /\ ret = NoReturn
LineAtHead == Top.lines[Top.line_index + 1]

\* The line at the head is outside the block: the end of the lines, a line
\* less indented than the base, or a bullet line.
RefOutside ==
  IF Top.line_index >= Len(Top.lines) THEN TRUE
  ELSE IF RefIndent(LineAtHead) < Top.base_indent THEN TRUE
  ELSE RefIsBullet(LineAtHead)

\* parse_properties returns in this step, with the index and mapping it has.
PropertiesReturns ==
  /\ stack' = Callers
  /\ ret'.fn = "parse_properties"
  /\ ret'.line_index = Top.line_index
  /\ ret'.properties = Top.properties
  /\ Top.start_index <= ret'.line_index
  /\ ret'.line_index <= Len(Top.lines)

\* C15: parse_properties returns the index r of the first line outside the
\* block (start <= r <= len(lines); r = len(lines), or line r is less
\* indented than the base, or line r is a bullet line that no array
\* delegation consumed); a colon-less line that is not a bullet, at indent
\* >= base, neither ends the block nor adds a property; every line that has
\* a colon and is not a bullet, reached by the walk, gives its key to the
\* returned mapping.
C15_BlockWalk ==
  /\ [][(AtLoopHead /\ stack' # stack) =>
          IF RefOutside THEN PropertiesReturns
          ELSE IF ~RefHasColon(LineAtHead)
            THEN /\ Len(stack') = Len(stack)
                 /\ stack'[Len(stack')].properties = Top.properties
                 /\ stack'[Len(stack')].line_index = Top.line_index + 1
                 /\ stack'[Len(stack')].pc = "loop"
          ELSE \/ /\ Len(stack') = Len(stack)
                  /\ RefKey(LineAtHead) \in DOMAIN stack'[Len(stack')].properties
               \/ /\ Calls("parse_array_block")
                  /\ stack'[Len(stack)].key = RefKey(LineAtHead)]_vars
  /\ [][(stack # <<>> /\ Top.fn = "parse_properties" /\ Len(stack') = Len(stack)) =>
          /\ DOMAIN Top.properties \subseteq DOMAIN stack'[Len(stack')].properties
          /\ Top.pc = "array" => Top.key \in DOMAIN stack'[Len(stack')].properties]_vars
  /\ [][(stack # <<>> /\ Top.fn = "parse_properties" /\ stack' = Callers) =>
          (AtLoopHead /\ RefOutside)]_vars

\* The walk is at a property line "key:" with nothing after the colon.
AtKeyOnlyLine ==
  /\ AtLoopHead
  /\ ~RefOutside
  /\ RefHasColon(LineAtHead)
  /\ RefRest(LineAtHead) = <<>>

\* The next line exists, is a bullet line and is deeper than the key line.
RefArrayFollows ==
  /\ Top.line_index + 1 < Len(Top.lines)
  /\ RefIsBullet(Top.lines[Top.line_index + 2])
  /\ RefIndent(Top.lines[Top.line_index + 2]) > RefIndent(LineAtHead)

\* C16: for a property line "key:" the node is parse_array_block's result
\* exactly when the next line exists, is a bullet line and is deeper than
\* the key line, and the walk resumes at the first line after the array
\* block; otherwise the node is the bare {type: string} and the walk goes on
\* at the next line in the same block.
C16_EmptyRemainderDispatch ==
  /\ [][(AtKeyOnlyLine /\ stack' # stack) =>
          IF RefArrayFollows
            THEN /\ Calls("parse_array_block")
                 /\ stack'[Len(stack')].lines = Top.lines
                 /\ stack'[Len(stack')].start_index = Top.line_index + 1
                 /\ stack'[Len(stack)].key = RefKey(LineAtHead)
                 /\ stack'[Len(stack)].properties = Top.properties
                 /\ stack'[Len(stack)].line_index = Top.line_index
            ELSE /\ Len(stack') = Len(stack)
                 /\ stack'[Len(stack')].pc = "loop"
                 /\ stack'[Len(stack')].lines = Top.lines
                 /\ stack'[Len(stack')].line_index = Top.line_index + 1
                 /\ RefKey(LineAtHead) \in DOMAIN stack'[Len(stack')].properties
                 /\ stack'[Len(stack')].properties[RefKey(LineAtHead)] = [type |-> "string"]
                 /\ \A k \in DOMAIN Top.properties \ {RefKey(LineAtHead)} :
                      stack'[Len(stack')].properties[k] = Top.properties[k]]_vars
  /\ [][(stack # <<>> /\ Top.fn = "parse_properties" /\ Takes("parse_array_block")) =>
          /\ stack'[Len(stack')].pc = "loop"
          /\ stack'[Len(stack')].properties[Top.key] = ret.definition
          /\ stack'[Len(stack')].line_index = ret.new_index
          /\ ret.new_index > Top.line_index + 1]_vars
  /\ [][Calls("parse_array_block") => (AtKeyOnlyLine /\ RefArrayFollows)]_vars

\* C16 happens: the key line k: is followed by a bullet at its own indent;
\* k was recorded as a bare string and the walk stands at the bullet line.
C16_Witness ==
  /\ test_pc = "walking"
  /\ stack # <<>>
  /\ Top.fn = "parse_properties"
  /\ Top.lines = <<LineKeyOnly, LineBulletTop>>
  /\ Top.line_index = 1
  /\ Top.properties = (<<"k">> :> [type |-> "string"])

\* Every key of every mapping in a node.
RECURSIVE AllKeys(_)
AllKeys(n) ==
  IF DOMAIN n = {"type", "properties"}
    THEN DOMAIN n.properties
           \cup UNION {AllKeys(n.properties[k]) : k \in DOMAIN n.properties}
  ELSE IF DOMAIN n = {"type", "items"}
    THEN AllKeys(n.items)
  ELSE {}

\* What splitting a line at its first colon gives as a key.
RefSplitKey(l) == RefTrim(SubSeq(l, 1, RefFirstColon(l) - 1))

\* C17: a bullet line (after its leading spaces and tabs its content begins
\* with "-") is never recorded as a property: no mapping of the document
\* has a key that came from splitting a bullet line at its colon, and the
\* bullet tests of parse_properties' loop and of the array dispatch and
\* parse_array_block agree on every line.
C17_BulletNeverProperty ==
  test_pc = "printed" =>
    \A i \in 1..Len(RefBody(text)) :
      /\ is_bullet_line(RefBody(text)[i]) = RefIsBullet(RefBody(text)[i])
      /\ is_bullet_any_ws(RefBody(text)[i]) = RefIsBullet(RefBody(text)[i])
      /\ (RefIsBullet(RefBody(text)[i]) /\ RefHasColon(RefBody(text)[i]))
         => RefSplitKey(RefBody(text)[i]) \notin AllKeys(schema)

\* parse_array_block is at the head of its loop.
AtArrayHead == stack # <<>> /\ Top.fn = "parse_array_block" /\ Top.pc = "loop" /\ ret = NoReturn

\* The line at idx is less indented than the first bullet or is no bullet.
RefBlockOver ==
  IF Top.idx >= Len(Top.lines) THEN TRUE
  ELSE IF RefIndent(Top.lines[Top.idx + 1]) < RefIndent(Top.lines[Top.start_index + 1])
    THEN TRUE
  ELSE ~RefIsBullet(Top.lines[Top.idx + 1])

\* C18: every parse_bullet_item that parse_array_block calls starts at a
\* bullet line whose indent equals the indent of the block's first bullet;
\* the block stops at the first line after an item that is less indented or
\* is not a bullet, and the returned index is that line or the end of the
\* lines.
C18_SameIndentBullets ==
  /\ [][(AtArrayHead /\ stack' # stack) =>
          IF RefBlockOver
            THEN /\ stack' = Callers
                 /\ ret'.fn = "parse_array_block"
                 /\ ret'.new_index = Top.idx
            ELSE /\ Calls("parse_bullet_item")
                 /\ stack'[Len(stack')].idx = Top.idx
                 /\ stack'[Len(stack')].bullet_indent =
                      RefIndent(Top.lines[Top.start_index + 1])
                 /\ RefIsBullet(Top.lines[Top.idx + 1])
                 /\ RefIndent(Top.lines[Top.idx + 1]) =
                      RefIndent(Top.lines[Top.start_index + 1])]_vars
  /\ [][Calls("parse_bullet_item") => AtArrayHead]_vars
  /\ [][(stack # <<>> /\ Top.fn = "parse_array_block" /\ Top.pc # "entry"
           /\ stack' = Callers) => AtArrayHead]_vars

\* C18 happens: after an item with a deeper continuation line, the second
\* parse_bullet_item of the block was called at index 3, at the indent of
\* the first bullet.
C18_Witness ==
  /\ test_pc = "walking"
  /\ stack # <<>>
  /\ Top.fn = "parse_bullet_item"
  /\ Top.pc = "entry"
  /\ Top.idx = 3
  /\ Top.bullet_indent = 1
  /\ Top.lines = <<LineKeyOnly, LineBulletA, LineContinuation, LineBulletEnum>>

\* The character at position i of s comes right after an escape.
RECURSIVE RefEscaped(_, _)
RefEscaped(s, i) == i > 1 /\ s[i - 1] = "\\" /\ ~RefEscaped(s, i - 1)

\* The character at position i of s is an escape.
RefIsEscape(s, i) == s[i] = "\\" /\ ~RefEscaped(s, i)

\* The quote character of the span that is open before position i of s, or
\* "" outside every span.
RECURSIVE RefOpenQuote(_, _)
RefOpenQuote(s, i) ==
  IF i = 1 THEN ""
  ELSE IF RefEscaped(s, i - 1) \/ RefIsEscape(s, i - 1) THEN RefOpenQuote(s, i - 1)
  ELSE IF RefOpenQuote(s, i - 1) # ""
    THEN (IF s[i - 1] = RefOpenQuote(s, i - 1) THEN "" ELSE RefOpenQuote(s, i - 1))
  ELSE IF s[i - 1] \in RefQuoteChars THEN s[i - 1]
  ELSE ""

\* The span that is open before position i is never closed.
RefUnterminated(s, i) == \A j \in i..(Len(s) + 1) : RefOpenQuote(s, j) # ""

\* A token that starts and ends with the same quote character.
RefSameQuotes(token) ==
  /\ token # <<>>
  /\ token[1] \in RefQuoteChars
  /\ token[Len(token)] = token[1]

\* What one turn of the character loop must do at position i of s.
RefCharStep(s, i, before, after) ==
  /\ (after.tokens # before.tokens)
       <=> (s[i] = "," /\ RefOpenQuote(s, i) = "" /\ ~RefEscaped(s, i))
  /\ (after.tokens # before.tokens)
       => /\ after.tokens = Append(before.tokens, RefTrim(before.current_token))
          /\ after.current_token = <<>>
  /\ RefIsEscape(s, i)
       => /\ after.current_token = before.current_token
          /\ after.in_quote = before.in_quote
          /\ after.quote_char = before.quote_char
  /\ RefEscaped(s, i)
       => /\ after.current_token = Append(before.current_token, s[i])
          /\ after.in_quote = before.in_quote
          /\ after.quote_char = before.quote_char
  /\ RefUnterminated(s, i)
       => /\ after.in_quote
          /\ RefIsEscape(s, i) \/ after.current_token = Append(before.current_token, s[i])
  /\ before.in_quote <=> (RefOpenQuote(s, i) # "")

\* C19: in custom_parse_list a comma ends a token only outside every quoted
\* span and not after an escape; an escape is removed and the character
\* after it is appended as it is, without opening or closing a span or
\* ending a token; each token is trimmed of whitespace and loses one layer
\* of quotes only when it starts and ends with the same quote character;
\* brackets around nothing or around whitespace give the empty list; and
\* after a quote that is never closed every character goes to the current
\* token.
C19_LenientTokenizer ==
  /\ [][InListLoop =>
          /\ Len(stack') = Len(stack)
          /\ RefCharStep(Top.inner, Top.pos + 1, Top, stack'[Len(stack)])]_vars
  /\ [][(InList("loop") /\ ~InListLoop) =>
          stack'[Len(stack)].tokens =
            IF Top.current_token # <<>>
              THEN Append(Top.tokens, RefTrim(Top.current_token))
              ELSE Top.tokens]_vars
  /\ [][(InList("unquote") /\ Top.pos < Len(Top.tokens)) =>
          stack'[Len(stack)].result =
            Append(Top.result,
                   IF RefSameQuotes(Top.tokens[Top.pos + 1])
                     THEN SubSeq(Top.tokens[Top.pos + 1], 2,
                                 Len(Top.tokens[Top.pos + 1]) - 1)
                     ELSE Top.tokens[Top.pos + 1])]_vars
  /\ [][(InList("unquote") /\ Top.pos = Len(Top.tokens)) =>
          /\ Len(Top.result) = Len(Top.tokens)
          /\ ret'.value = [k \in 1..Len(Top.result) |-> PyStr(Top.result[k])]
          /\ ret'.value = custom_parse_list(Top.text)]_vars
  /\ [][InList("entry") =>
          IF \A k \in 2..(Len(Top.text) - 1) : Top.text[k] \in RefBlankChars
            THEN stack' = Callers /\ ret'.value = <<>>
            ELSE /\ stack' # Callers
                 /\ stack'[Len(stack)].inner = RefTrim(SubSeq(Top.text, 2, Len(Top.text) - 1))]_vars

\* C19 happens: the comma between the quotes of ['a,a'] did not end the
\* token, and the token lost its quotes.
C19_Witness ==
  /\ InList("unquote")
  /\ Top.text = <<"[", "'", "a", ",", "a", "'", "]">>
  /\ Top.tokens = <<<<"'", "a", ",", "a", "'">>>>
  /\ Top.result = <<<<"a", ",", "a">>>>

\* generate_response is reading the response.
Streaming == stack # <<>> /\ Top.fn = "generate_response"

\* The number of characters that are whole within the first n bytes of the
\* encoding of chars.
RECURSIVE RefWholeChars(_, _)
RefWholeChars(chars, n) ==
  IF chars = <<>> THEN 0
  ELSE IF Len(utf8_encode(CodePoint[Head(chars)])) > n THEN 0
  ELSE 1 + RefWholeChars(Tail(chars), n - Len(utf8_encode(CodePoint[Head(chars)])))

\* The positions, among the characters of the body, of the first and of the
\* last character of the JSON text of frame k.
RefJsonStart(frames, k) == Len(body_text(SubSeq(frames, 1, k - 1))) + Len(DataPrefix) + 1
RefJsonEnd(frames, k) ==
  Len(body_text(SubSeq(frames, 1, k - 1))) + Len(DataPrefix) + Len(frames[k].json)

\* The number of frames whose JSON text lies within the first q characters.
RefEnded(frames, q) == Cardinality({k \in 1..Len(frames) : RefJsonEnd(frames, k) <= q})

RefValues(frames, n) == [k \in 1..n |-> frames[k].value]

\* What generate_response must hold after pos bytes of the response, q of
\* its characters being whole and the JSON texts of n frames being over.
RefDecoderAt(f, frames, chars, q, n) ==
  /\ f.yielded = RefValues(frames, n)
  /\ f.byte_stream_buffer =
       SubSeq(f.response.content, Len(encode(SubSeq(chars, 1, q))) + 1, f.pos)
  /\ IF n < Len(frames) /\ q >= RefJsonStart(frames, n + 1)
       THEN /\ f.json_buffer = SubSeq(chars, RefJsonStart(frames, n + 1), q)
            /\ f.json_fragment = <<>>
       ELSE /\ f.json_buffer = <<>>
            /\ f.json_fragment =
                 SubSeq(chars, (IF n = 0 THEN 0 ELSE RefJsonEnd(frames, n)) + 1, q)

RefDecoderWhole(f, frames, chars, q) ==
  RefDecoderAt(f, frames, chars, q, RefEnded(frames, q))

RefDecoder(f) ==
  RefDecoderWhole(f, f.response.frames, body_text(f.response.frames),
                  RefWholeChars(body_text(f.response.frames), f.pos))

\* C20: for a response of frames "data: <json object>" with a blank line
\* after each, read one byte a chunk, generate_response yields the value of
\* every frame once and in the order of the stream; the bytes of a character
\* that is not whole yet wait in byte_stream_buffer and no character is lost
\* or taken twice; and byte_stream_buffer, json_fragment and json_buffer are
\* empty after each yield.
C20_StreamDecoder ==
  /\ [](Streaming => RefDecoder(Top))
  /\ [][(Streaming /\ stack' # <<>> /\ stack'[Len(stack)].yielded # Top.yielded) =>
          /\ stack'[Len(stack)].yielded =
               Append(Top.yielded, Top.response.frames[Len(Top.yielded) + 1].value)
          /\ stack'[Len(stack)].byte_stream_buffer = <<>>
          /\ stack'[Len(stack)].json_fragment = <<>>
          /\ stack'[Len(stack)].json_buffer = <<>>]_vars
  /\ [][(Streaming /\ stack' = <<>>) =>
          /\ Top.pos = Len(Top.response.content)
          /\ ret'.value = RefValues(Top.response.frames, Len(Top.response.frames))]_vars

\* C20 happens: the first frame was yielded, and two of the three bytes of
\* a character of the second frame wait in byte_stream_buffer.
C20_Witness ==
  /\ Streaming
  /\ Top.response.frames[1].json = FrameTwoBytes.json
  /\ Top.yielded = <<FrameTwoBytes.value>>
  /\ Top.byte_stream_buffer = <<227, 129>>
  /\ Top.json_buffer = <<"{", "\"", "a", "\"", ":", " ", "\"">>

\* main is running.
Chatting == stack # <<>> /\ Top.fn = "main"

\* The records of a history are, in order, each user record followed by a
\* model record.
RefAlternates(history) ==
  \A k \in 1..Len(history) :
    history[k].role = (IF k % 2 = 1 THEN "user" ELSE "model")

\* C21: the chat loop records the conversation: after each completed
\* exchange the model's reply is part of conversation_history, and the
\* history sent with a request holds, in order, every earlier user record
\* followed by its model record.
C21_HistoryRecordsReplies ==
  Chatting =>
    /\ (chat_pc = "input" /\ Top.model_record # None)
         => /\ conversation_history # <<>>
            /\ conversation_history[Len(conversation_history)] = Top.model_record
    /\ (Top.request_body # None) => RefAlternates(Top.request_body.contents)

\* The text that reading the end of the input leaves in user_text.
RefFarewell(copy) ==
  IF copy = "q_a.py"
    THEN <<"b", "y", "e", ".">>
    ELSE <<"I", "t", "'", "s", " ", "O", "K", ",", " ",
           "g", "o", "o", "d", " ", "b", "y", "e", ".">>

\* C22: once reading the user's input raises EOFError (or, in
\* q_a_with_grounding.py, KeyboardInterrupt), get_user_input returns the
\* farewell text, which is not empty, and main leaves its loop after at most
\* one more exchange with the model, whatever the model replies; and a user
\* text equal to exit or quit in any letter case ends the loop with no
\* request made for it.
C22_EndOfInputEndsLoop ==
  /\ [][(Chatting /\ chat_pc = "input" /\ chat_pc' # "crashed" /\ stack'[Len(stack)].eof) =>
          /\ stack'[Len(stack)].user_text = RefFarewell(Top.copy)
          /\ stack'[Len(stack)].user_text # <<>>
          /\ chat_pc' \in {"model", "ended"}]_vars
  /\ [][(Chatting /\ chat_pc = "streaming" /\ Top.eof) => chat_pc' = "ended"]_vars
  /\ [][(Chatting /\ chat_pc = "input" /\ chat_pc' # "crashed"
           /\ lower(stack'[Len(stack)].user_text) \in ExitWords) =>
          /\ chat_pc' = "ended"
          /\ stack'[Len(stack)].request_body = Top.request_body]_vars

====
